---------------------------- MODULE Spec2Model ----------------------------
(***************************************************************************)
(* Model of the tab-disambiguation and site-navigation resolver of the      *)
(* extension's background script (apps/extension/src/background.js):        *)
(* levenshteinDistance, phoneticSimilarity, fuzzyMatchScore,                *)
(* executeTabSwitch, resolveNavigationURL, executeNavigate and the          *)
(* dispatcher executeActionOnTab.                                           *)
(*                                                                         *)
(* A JavaScript string is a sequence of UTF-16 code units; a code unit is   *)
(* written as a one-character TLA+ string, and LoneSurrogate stands for an  *)
(* unpaired surrogate code unit (U+D800).  JavaScript numbers that the      *)
(* scorer produces are rationals; they are kept exact as reduced fractions  *)
(* [n, d] (floating-point rounding is not modelled).                        *)
(***************************************************************************)
EXTENDS Integers, Sequences, FiniteSets, TLC

(***************************************************************************)
(* Code units and character classes                                        *)
(***************************************************************************)

LoneSurrogate == "<D800>"

UpperLetters ==
    <<"A", "B", "C", "D", "E", "F", "G", "H", "I", "J", "K", "L", "M", "N", "O", "P", "Q", "R", "S", "T", "U", "V", "W", "X", "Y", "Z">>

LowerLetters ==
    <<"a", "b", "c", "d", "e", "f", "g", "h", "i", "j", "k", "l", "m", "n", "o", "p", "q", "r", "s", "t", "u", "v", "w", "x", "y", "z">>

Digits == {"0", "1", "2", "3", "4", "5", "6", "7", "8", "9"}

Range(s) == {s[i] : i \in DOMAIN s}

\* \s of a JavaScript regular expression and of String.prototype.trim,
\* restricted to the white space the model's inputs use.
WhiteSpace == {" "}

\* [a-z0-9], the class phoneticSimilarity keeps.
AlnumLower == Range(LowerLetters) \cup Digits

\* \w of a JavaScript regular expression: [A-Za-z0-9_].
WordChars == Range(LowerLetters) \cup Range(UpperLetters) \cup Digits \cup {"_"}

\* String.prototype.toLowerCase, one code unit at a time.
LowerMap ==
    [c \in Range(UpperLetters) |->
        LowerLetters[CHOOSE i \in DOMAIN UpperLetters : UpperLetters[i] = c]]

toLowerChar(c) == IF c \in DOMAIN LowerMap THEN LowerMap[c] ELSE c

toLowerCase(s) == [i \in DOMAIN s |-> toLowerChar(s[i])]

(***************************************************************************)
(* String.prototype operations used by the resolver                        *)
(***************************************************************************)

\* s.slice(from - 1): the code units from index `from` (1-based) on.
Drop(s, k) == SubSeq(s, k + 1, Len(s))

Take(s, k) == SubSeq(s, 1, k)

RECURSIVE trimStart(_)
trimStart(s) ==
    IF s # <<>> /\ Head(s) \in WhiteSpace THEN trimStart(Tail(s)) ELSE s

RECURSIVE trimEnd(_)
trimEnd(s) ==
    IF s # <<>> /\ s[Len(s)] \in WhiteSpace THEN trimEnd(Take(s, Len(s) - 1)) ELSE s

trim(s) == trimEnd(trimStart(s))

startsWith(s, p) == Len(p) <= Len(s) /\ Take(s, Len(p)) = p

includes(s, p) ==
    \E k \in 0..(Len(s) - Len(p)) : SubSeq(s, k + 1, k + Len(p)) = p

\* s.indexOf(c, pos) for a single code unit c, 0-based; -1 when absent.
indexOf(s, c, pos) ==
    LET hits == {k \in pos..(Len(s) - 1) : s[k + 1] = c}
    IN  IF hits = {} THEN -1 ELSE CHOOSE k \in hits : \A h \in hits : k <= h

\* s.replace(/[^a-z0-9]/g, '')
RECURSIVE stripNonAlnum(_)
stripNonAlnum(s) ==
    IF s = <<>> THEN <<>>
    ELSE IF Head(s) \in AlnumLower
         THEN <<Head(s)>> \o stripNonAlnum(Tail(s))
         ELSE stripNonAlnum(Tail(s))

\* s.split(/\s+/): the pieces between maximal runs of white space; a run at
\* either end leaves an empty piece there, and "" splits to [""].
RECURSIVE splitFrom(_, _, _, _)
splitFrom(s, i, cur, acc) ==
    IF i > Len(s) THEN Append(acc, cur)
    ELSE IF s[i] \in WhiteSpace
         THEN IF i > 1 /\ s[i - 1] \in WhiteSpace
              THEN splitFrom(s, i + 1, cur, acc)
              ELSE splitFrom(s, i + 1, <<>>, Append(acc, cur))
         ELSE splitFrom(s, i + 1, Append(cur, s[i]), acc)

splitWhitespace(s) == splitFrom(s, 1, <<>>, <<>>)

(***************************************************************************)
(* Numbers: exact rationals                                                *)
(***************************************************************************)

Min2(a, b) == IF a <= b THEN a ELSE b

Max2(a, b) == IF a >= b THEN a ELSE b

RECURSIVE GCD(_, _)
GCD(a, b) == IF b = 0 THEN a ELSE GCD(b, a % b)

\* The number n/d (d > 0, n >= 0) in lowest terms.
Rat(n, d) == LET g == GCD(n, d) IN [n |-> n \div g, d |-> d \div g]

Num(k) == [n |-> k, d |-> 1]

RLess(a, b) == a.n * b.d < b.n * a.d

RLeq(a, b) == a.n * b.d <= b.n * a.d

\* Math.max(a, b)
RMax(a, b) == IF RLess(a, b) THEN b ELSE a

RAdd(a, b) == Rat(a.n * b.d + b.n * a.d, a.d * b.d)

RMul(a, b) == Rat(a.n * b.n, a.d * b.d)

(***************************************************************************)
(* levenshteinDistance (background.js 558-583)                             *)
(***************************************************************************)

\* A bug: a substitution is charged also where the code units agree.
RECURSIVE levFillRowAlwaysCharged(_, _, _, _, _)
levFillRowAlwaysCharged(str1, str2, i, prev, cur) ==
    LET j == Len(cur)
    IN  IF j > Len(str2) THEN cur
        ELSE LET cell == Min2(Min2(prev[j + 1] + 1, cur[j] + 1), prev[j] + 1)
             IN  levFillRowAlwaysCharged(str1, str2, i, prev, Append(cur, cell))

\* A bug: the term matrix[i][j - 1] + 1 is left out.
RECURSIVE levFillRowTwoTerms(_, _, _, _, _)
levFillRowTwoTerms(str1, str2, i, prev, cur) ==
    LET j == Len(cur)
    IN  IF j > Len(str2) THEN cur
        ELSE LET cost == IF str1[i] = str2[j] THEN 0 ELSE 1
                 cell == Min2(prev[j + 1] + 1, prev[j] + cost)
             IN  levFillRowTwoTerms(str1, str2, i, prev, Append(cur, cell))

\* Row i of the matrix, cell by cell from j = 1, given row i-1 (`prev`);
\* rows are sequences, cell j at index j + 1.  `cur` holds cells 0..j-1.
RECURSIVE levFillRow(_, _, _, _, _)
levFillRow(str1, str2, i, prev, cur) ==
    LET j == Len(cur)
    IN  IF j > Len(str2) THEN cur
        ELSE LET cost == IF str1[i] = str2[j] THEN 0 ELSE 1
                 cell == Min2(Min2(prev[j + 1] + 1, cur[j] + 1), prev[j] + cost)
             IN  levFillRow(str1, str2, i, prev, Append(cur, cell))

\* The outer loop of lines 572-580: rows i..len1, given row i-1 (`prev`).
\* A row is never empty; the test on Len(prev) only makes TLC compute each
\* row before it descends to the next, which keeps the evaluation shallow.
RECURSIVE levRows(_, _, _, _)
levRows(str1, str2, i, prev) ==
    IF i > Len(str1) \/ Len(prev) = 0 THEN prev
    ELSE levRows(str1, str2, i + 1, levFillRow(str1, str2, i, prev, <<i>>))

\* Row 0 is 0..len2 (lines 567-569); the result is matrix[len1][len2].
levenshteinDistance(str1, str2) ==
    levRows(str1, str2, 1, [j \in 1..(Len(str2) + 1) |-> j - 1])[Len(str2) + 1]

(***************************************************************************)
(* phoneticSimilarity (background.js 519-555)                              *)
(***************************************************************************)

patterns ==
    << [spoken |-> <<"g", "e", "t", "u", "p">>,   written |-> <<"g", "i", "t", "h", "u", "b">>],
       [spoken |-> <<"g", "i", "t", " ", "h", "u", "b">>, written |-> <<"g", "i", "t", "h", "u", "b">>],
       [spoken |-> <<"y", "o", "u", "t", "o", "o">>,  written |-> <<"y", "o", "u", "t", "u", "b", "e">>],
       [spoken |-> <<"y", "o", "u", "t", "u", "b", "e">>, written |-> <<"y", "o", "u", "t", "u", "b", "e">>],
       [spoken |-> <<"s", "l", "a", "k">>,    written |-> <<"s", "l", "a", "c", "k">>],
       [spoken |-> <<"k", "r", "o", "m", "e">>,   written |-> <<"c", "h", "r", "o", "m", "e">>] >>

\* A bug: the similarity is not divided by maxLen.
similarityNotNormalised(clean1, clean2) ==
    LET maxLen == Max2(Len(clean1), Len(clean2))
    IN  Num((maxLen - levenshteinDistance(clean1, clean2)) * 100)

\* A bug: the share of the edits, not of the code units that are kept.
similarityOfDistance(clean1, clean2) ==
    LET maxLen == Max2(Len(clean1), Len(clean2))
    IN  IF maxLen = 0 THEN Num(0)
        ELSE Rat(levenshteinDistance(clean1, clean2) * 100, maxLen)

\* Lines 547-554: the edit-distance similarity of the cleaned strings.
similarity(clean1, clean2) ==
    LET maxLen == Max2(Len(clean1), Len(clean2))
    IN  IF maxLen = 0 THEN Num(0)
        ELSE Rat((maxLen - levenshteinDistance(clean1, clean2)) * 100, maxLen)

phoneticSimilarity(str1, str2) ==
    LET clean1 == stripNonAlnum(toLowerCase(str1))
        clean2 == stripNonAlnum(toLowerCase(str2))
    IN  IF \E k \in DOMAIN patterns :
              \/ includes(clean1, patterns[k].spoken) /\ includes(clean2, patterns[k].written)
              \/ includes(clean1, patterns[k].written) /\ includes(clean2, patterns[k].spoken)
        THEN Num(95)
        ELSE similarity(clean1, clean2)

(***************************************************************************)
(* fuzzyMatchScore (background.js 586-625)                                 *)
(***************************************************************************)

\* A tab field the browser does not report (tab.title / tab.url undefined);
\* it is no string: its one element is not a code unit.
Undefined == <<"<undefined>">>

\* A bug: every code unit is searched from the start of the text.
RECURSIVE charMatchesFromStart(_, _, _, _)
charMatchesFromStart(queryLower, textLower, i, pos) ==
    IF i > Len(queryLower) THEN 0
    ELSE (IF indexOf(textLower, queryLower[i], 0) >= 0 THEN 1 ELSE 0)
         + charMatchesFromStart(queryLower, textLower, i + 1, pos)

\* The loop of lines 614-621: the number of code units of queryLower found
\* in textLower, each searched from just past the previous hit.
RECURSIVE charMatches(_, _, _, _)
charMatches(queryLower, textLower, i, pos) ==
    IF i > Len(queryLower) THEN 0
    ELSE LET idx == indexOf(textLower, queryLower[i], pos)
         IN  IF idx >= 0
             THEN 1 + charMatches(queryLower, textLower, i + 1, idx + 1)
             ELSE charMatches(queryLower, textLower, i + 1, pos)

\* A bug: one matching query word is taken for all of them.
fuzzyMatchScoreAnyWord(query, text) ==
    IF text = Undefined \/ text = <<>> THEN Num(0)
    ELSE
    LET queryLower == trim(toLowerCase(query))
        textLower == toLowerCase(text)
        phoneticScore == phoneticSimilarity(queryLower, textLower)
        words == splitWhitespace(queryLower)
        textWords == splitWhitespace(textLower)
        matchingWords ==
            {i \in DOMAIN words :
                \E t \in DOMAIN textWords : includes(textWords[t], words[i])}
        matches == charMatches(queryLower, textLower, 1, 0)
        fuzzyScore == Rat(matches * 40, Len(queryLower))
    IN  IF textLower = queryLower THEN Num(100)
        ELSE IF startsWith(textLower, queryLower) THEN Num(90)
        ELSE IF includes(textLower, queryLower) THEN Num(85)
        ELSE IF RLess(Num(80), phoneticScore) THEN phoneticScore
        ELSE IF Cardinality(matchingWords) > 0 THEN Num(70)
        ELSE RMax(fuzzyScore, RMul(phoneticScore, Rat(1, 2)))

fuzzyMatchScore(query, text) ==
    IF text = Undefined \/ text = <<>> THEN Num(0)
    ELSE
    LET queryLower == trim(toLowerCase(query))
        textLower == toLowerCase(text)
        phoneticScore == phoneticSimilarity(queryLower, textLower)
        words == splitWhitespace(queryLower)
        textWords == splitWhitespace(textLower)
        matchingWords ==
            {i \in DOMAIN words :
                \E t \in DOMAIN textWords : includes(textWords[t], words[i])}
        matches == charMatches(queryLower, textLower, 1, 0)
        fuzzyScore == Rat(matches * 40, Len(queryLower))
    IN  IF textLower = queryLower THEN Num(100)
        ELSE IF startsWith(textLower, queryLower) THEN Num(90)
        ELSE IF includes(textLower, queryLower) THEN Num(85)
        ELSE IF RLess(Num(80), phoneticScore) THEN phoneticScore
        ELSE IF Cardinality(matchingWords) = Len(words) THEN Num(70)
        ELSE IF Cardinality(matchingWords) > 0
             THEN RAdd(Num(50), Rat(Cardinality(matchingWords) * 20, Len(words)))
        ELSE RMax(fuzzyScore, RMul(phoneticScore, Rat(1, 2)))

(***************************************************************************)
(* new URL(input), for http and https (WHATWG URL parsing).  What the       *)
(* model's inputs exercise is modelled: leading and trailing white space    *)
(* is stripped, the scheme and the host are lower-cased, slashes after the  *)
(* scheme's colon are skipped, an empty host, a forbidden host code point   *)
(* or a port that is not a number fails the parse, an empty path            *)
(* serializes as "/", and a space or an unpaired surrogate in the path is   *)
(* percent-encoded.  The inputs carry no digits, "@", "?", "#", "\", "%" or *)
(* dot segments in a URL.                                                  *)
(***************************************************************************)

SchemeChars == Range(LowerLetters) \cup Range(UpperLetters) \cup Digits \cup {"+", "-", "."}

Letters == Range(LowerLetters) \cup Range(UpperLetters)

ForbiddenHostChars ==
    {" ", "#", "/", ":", "<", ">", "?", "@", "[", "\\", "]", "^", "|", "%", LoneSurrogate}

\* 0-based index of the first code unit of s in `set`, or Len(s) if none.
firstIn(s, set) ==
    LET hits == {k \in 1..Len(s) : s[k] \in set}
    IN  IF hits = {} THEN Len(s) ELSE (CHOOSE k \in hits : \A h \in hits : k <= h) - 1

RECURSIVE skipSlashes(_)
skipSlashes(s) ==
    IF s # <<>> /\ Head(s) \in {"/", "\\"} THEN skipSlashes(Tail(s)) ELSE s

RECURSIVE encodePath(_)
encodePath(s) ==
    IF s = <<>> THEN <<>>
    ELSE (IF Head(s) = " " THEN <<"%", "2", "0">>
          ELSE IF Head(s) = LoneSurrogate THEN <<"%", "E", "F", "%", "B", "F", "%", "B", "D">>
          ELSE <<Head(s)>>) \o encodePath(Tail(s))

NotAURL == [ok |-> FALSE]

\* [ok |-> TRUE, protocol, href] when the input parses, NotAURL when the
\* constructor throws.  A scheme other than http and https is reported with
\* its protocol only (the caller reads nothing else of it).
ParseURL(input) ==
    LET s == trim(input)
        colon == firstIn(s, {":"})
        scheme == toLowerCase(Take(s, colon))
        rest == skipSlashes(Drop(s, colon + 1))
        authLen == firstIn(rest, {"/"})
        authority == Take(rest, authLen)
        hostLen == firstIn(authority, {":"})
        host == toLowerCase(Take(authority, hostLen))
        port == Drop(authority, hostLen + 1)
        path == Drop(rest, authLen)
    IN  IF s = <<>> \/ Head(s) \notin Letters \/ colon = Len(s)
           \/ Range(Take(s, colon)) \ SchemeChars # {}
        THEN NotAURL
        ELSE IF scheme \notin {<<"h", "t", "t", "p">>, <<"h", "t", "t", "p", "s">>}
        THEN [ok |-> TRUE, protocol |-> scheme \o <<":">>, href |-> Undefined]
        ELSE IF host = <<>> \/ Range(host) \cap ForbiddenHostChars # {}
                \/ Range(port) \ Digits # {}
        THEN NotAURL
        ELSE [ok |-> TRUE,
              protocol |-> scheme \o <<":">>,
              href |-> scheme \o <<":", "/", "/">> \o host
                       \o (IF port = <<>> THEN <<>> ELSE <<":">> \o port)
                       \o (IF path = <<>> THEN <<"/">> ELSE encodePath(path))]

(***************************************************************************)
(* encodeURIComponent                                                      *)
(***************************************************************************)

\* The code units encodeURIComponent leaves as they are.
UriUnreserved ==
    Letters \cup Digits \cup {"-", "_", ".", "!", "~", "*", "'", "(", ")"}

\* The escapes of the other ASCII code units the model's inputs use.
UriEscape ==
    (" " :> <<"%", "2", "0">>) @@ (":" :> <<"%", "3", "A">>) @@ ("/" :> <<"%", "2", "F">>) @@
    ("?" :> <<"%", "3", "F">>) @@ ("#" :> <<"%", "2", "3">>) @@ ("@" :> <<"%", "4", "0">>) @@
    ("&" :> <<"%", "2", "6">>) @@ ("=" :> <<"%", "3", "D">>) @@ ("+" :> <<"%", "2", "B">>) @@
    ("," :> <<"%", "2", "C">>) @@ ("%" :> <<"%", "2", "5">>)

\* An unpaired surrogate makes encodeURIComponent throw URIError.
uriEncodable(s) == LoneSurrogate \notin Range(s)

RECURSIVE encodeURIComponent(_)
encodeURIComponent(s) ==
    IF s = <<>> THEN <<>>
    ELSE (IF Head(s) \in UriUnreserved THEN <<Head(s)>> ELSE UriEscape[Head(s)])
         \o encodeURIComponent(Tail(s))

(***************************************************************************)
(* POPULAR_SITES and resolveNavigationURL (background.js 689-758)          *)
(***************************************************************************)

\* Object.entries(POPULAR_SITES): the entries in insertion order.
POPULAR_SITES ==
    << <<<<"y", "o", "u", "t", "u", "b", "e">>, <<"h", "t", "t", "p", "s", ":", "/", "/", "w", "w", "w", ".", "y", "o", "u", "t", "u", "b", "e", ".", "c", "o", "m">>>>,
       <<<<"g", "m", "a", "i", "l">>, <<"h", "t", "t", "p", "s", ":", "/", "/", "m", "a", "i", "l", ".", "g", "o", "o", "g", "l", "e", ".", "c", "o", "m">>>>,
       <<<<"g", "o", "o", "g", "l", "e">>, <<"h", "t", "t", "p", "s", ":", "/", "/", "w", "w", "w", ".", "g", "o", "o", "g", "l", "e", ".", "c", "o", "m">>>>,
       <<<<"f", "a", "c", "e", "b", "o", "o", "k">>, <<"h", "t", "t", "p", "s", ":", "/", "/", "w", "w", "w", ".", "f", "a", "c", "e", "b", "o", "o", "k", ".", "c", "o", "m">>>>,
       <<<<"i", "n", "s", "t", "a", "g", "r", "a", "m">>, <<"h", "t", "t", "p", "s", ":", "/", "/", "w", "w", "w", ".", "i", "n", "s", "t", "a", "g", "r", "a", "m", ".", "c", "o", "m">>>>,
       <<<<"t", "w", "i", "t", "t", "e", "r">>, <<"h", "t", "t", "p", "s", ":", "/", "/", "t", "w", "i", "t", "t", "e", "r", ".", "c", "o", "m">>>>,
       <<<<"x">>, <<"h", "t", "t", "p", "s", ":", "/", "/", "t", "w", "i", "t", "t", "e", "r", ".", "c", "o", "m">>>>,
       <<<<"l", "i", "n", "k", "e", "d", "i", "n">>, <<"h", "t", "t", "p", "s", ":", "/", "/", "w", "w", "w", ".", "l", "i", "n", "k", "e", "d", "i", "n", ".", "c", "o", "m">>>>,
       <<<<"r", "e", "d", "d", "i", "t">>, <<"h", "t", "t", "p", "s", ":", "/", "/", "w", "w", "w", ".", "r", "e", "d", "d", "i", "t", ".", "c", "o", "m">>>>,
       <<<<"g", "i", "t", "h", "u", "b">>, <<"h", "t", "t", "p", "s", ":", "/", "/", "g", "i", "t", "h", "u", "b", ".", "c", "o", "m">>>>,
       <<<<"s", "t", "a", "c", "k", "o", "v", "e", "r", "f", "l", "o", "w">>, <<"h", "t", "t", "p", "s", ":", "/", "/", "s", "t", "a", "c", "k", "o", "v", "e", "r", "f", "l", "o", "w", ".", "c", "o", "m">>>>,
       <<<<"c", "h", "a", "t", "g", "p", "t">>, <<"h", "t", "t", "p", "s", ":", "/", "/", "c", "h", "a", "t", ".", "o", "p", "e", "n", "a", "i", ".", "c", "o", "m">>>>,
       <<<<"o", "p", "e", "n", "a", "i">>, <<"h", "t", "t", "p", "s", ":", "/", "/", "c", "h", "a", "t", ".", "o", "p", "e", "n", "a", "i", ".", "c", "o", "m">>>>,
       <<<<"c", "l", "a", "u", "d", "e">>, <<"h", "t", "t", "p", "s", ":", "/", "/", "c", "l", "a", "u", "d", "e", ".", "a", "i">>>>,
       <<<<"a", "n", "t", "h", "r", "o", "p", "i", "c">>, <<"h", "t", "t", "p", "s", ":", "/", "/", "c", "l", "a", "u", "d", "e", ".", "a", "i">>>>,
       <<<<"n", "e", "t", "f", "l", "i", "x">>, <<"h", "t", "t", "p", "s", ":", "/", "/", "w", "w", "w", ".", "n", "e", "t", "f", "l", "i", "x", ".", "c", "o", "m">>>>,
       <<<<"a", "m", "a", "z", "o", "n">>, <<"h", "t", "t", "p", "s", ":", "/", "/", "w", "w", "w", ".", "a", "m", "a", "z", "o", "n", ".", "c", "o", "m">>>>,
       <<<<"e", "b", "a", "y">>, <<"h", "t", "t", "p", "s", ":", "/", "/", "w", "w", "w", ".", "e", "b", "a", "y", ".", "c", "o", "m">>>>,
       <<<<"w", "i", "k", "i", "p", "e", "d", "i", "a">>, <<"h", "t", "t", "p", "s", ":", "/", "/", "w", "w", "w", ".", "w", "i", "k", "i", "p", "e", "d", "i", "a", ".", "o", "r", "g">>>>,
       <<<<"m", "e", "d", "i", "u", "m">>, <<"h", "t", "t", "p", "s", ":", "/", "/", "m", "e", "d", "i", "u", "m", ".", "c", "o", "m">>>>,
       <<<<"n", "o", "t", "i", "o", "n">>, <<"h", "t", "t", "p", "s", ":", "/", "/", "w", "w", "w", ".", "n", "o", "t", "i", "o", "n", ".", "s", "o">>>>,
       <<<<"f", "i", "g", "m", "a">>, <<"h", "t", "t", "p", "s", ":", "/", "/", "w", "w", "w", ".", "f", "i", "g", "m", "a", ".", "c", "o", "m">>>>,
       <<<<"c", "a", "n", "v", "a">>, <<"h", "t", "t", "p", "s", ":", "/", "/", "w", "w", "w", ".", "c", "a", "n", "v", "a", ".", "c", "o", "m">>>>,
       <<<<"s", "p", "o", "t", "i", "f", "y">>, <<"h", "t", "t", "p", "s", ":", "/", "/", "w", "w", "w", ".", "s", "p", "o", "t", "i", "f", "y", ".", "c", "o", "m">>>>,
       <<<<"t", "w", "i", "t", "c", "h">>, <<"h", "t", "t", "p", "s", ":", "/", "/", "w", "w", "w", ".", "t", "w", "i", "t", "c", "h", ".", "t", "v">>>>,
       <<<<"d", "i", "s", "c", "o", "r", "d">>, <<"h", "t", "t", "p", "s", ":", "/", "/", "d", "i", "s", "c", "o", "r", "d", ".", "c", "o", "m">>>>,
       <<<<"s", "l", "a", "c", "k">>, <<"h", "t", "t", "p", "s", ":", "/", "/", "s", "l", "a", "c", "k", ".", "c", "o", "m">>>>,
       <<<<"z", "o", "o", "m">>, <<"h", "t", "t", "p", "s", ":", "/", "/", "z", "o", "o", "m", ".", "u", "s">>>>,
       <<<<"d", "r", "i", "v", "e">>, <<"h", "t", "t", "p", "s", ":", "/", "/", "d", "r", "i", "v", "e", ".", "g", "o", "o", "g", "l", "e", ".", "c", "o", "m">>>>,
       <<<<"d", "o", "c", "s">>, <<"h", "t", "t", "p", "s", ":", "/", "/", "d", "o", "c", "s", ".", "g", "o", "o", "g", "l", "e", ".", "c", "o", "m">>>>,
       <<<<"s", "h", "e", "e", "t", "s">>, <<"h", "t", "t", "p", "s", ":", "/", "/", "s", "h", "e", "e", "t", "s", ".", "g", "o", "o", "g", "l", "e", ".", "c", "o", "m">>>> >>

\* The length of the longest prefix of s made of code units of `set`.
prefixRun(s, set) == firstIn(s, Range(s) \ set)

\* /^[\w-]+\.[\w]{2,}/.test(s): [\w-] excludes ".", so the run of [\w-]
\* from the start must end at the dot.
matchesDomainPattern(s) ==
    LET k == prefixRun(s, WordChars \cup {"-"})
    IN  /\ k >= 1
        /\ Len(s) >= k + 3
        /\ s[k + 1] = "."
        /\ s[k + 2] \in WordChars
        /\ s[k + 3] \in WordChars

\* /^[\w-]+\.com|\.org|\.net|\.io|\.ai|\.dev/.test(s): "|" binds loosest, so
\* only the first alternative is anchored at the start.
matchesSuffixPattern(s) ==
    LET k == prefixRun(s, WordChars \cup {"-"})
    IN  \/ k >= 1 /\ startsWith(Drop(s, k), <<".", "c", "o", "m">>)
        \/ \E suffix \in {<<".", "o", "r", "g">>, <<".", "n", "e", "t">>, <<".", "i", "o">>, <<".", "a", "i">>, <<".", "d", "e", "v">>} :
               includes(s, suffix)

\* The entries whose keyword inputLower contains, by position in the table.
siteMatches(inputLower) ==
    {k \in DOMAIN POPULAR_SITES : includes(inputLower, POPULAR_SITES[k][1])}

\* A bug: the loop keeps going and the last match wins.
lastSiteMatch(inputLower) ==
    CHOOSE k \in siteMatches(inputLower) : \A h \in siteMatches(inputLower) : k >= h

\* The entry the for-of loop of lines 743-748 returns at: the first match.
firstSiteMatch(inputLower) ==
    CHOOSE k \in siteMatches(inputLower) : \A h \in siteMatches(inputLower) : k <= h

Returns(v) == [kind |-> "return", value |-> v]

Throws(e) == [kind |-> "throw", error |-> e]

SearchPrefix == <<"h", "t", "t", "p", "s", ":", "/", "/", "w", "w", "w", ".", "g", "o", "o", "g", "l", "e", ".", "c", "o", "m", "/", "s", "e", "a", "r", "c", "h", "?", "q", "=">>

\* A bug: a URL is handed back as typed, not as url.href.
resolveNavigationURLAsTyped(input) ==
    LET inputLower == trim(toLowerCase(input))
        url == ParseURL(input)
    IN  IF url.ok /\ url.protocol \in {<<"h", "t", "t", "p", ":">>, <<"h", "t", "t", "p", "s", ":">>}
        THEN Returns(input)
        ELSE IF startsWith(inputLower, <<"w", "w", "w", ".">>) \/ matchesDomainPattern(inputLower)
        THEN Returns(<<"h", "t", "t", "p", "s", ":", "/", "/">> \o input)
        ELSE IF siteMatches(inputLower) # {}
        THEN Returns(POPULAR_SITES[firstSiteMatch(inputLower)][2])
        ELSE IF matchesSuffixPattern(inputLower)
        THEN Returns(<<"h", "t", "t", "p", "s", ":", "/", "/">> \o input)
        ELSE IF uriEncodable(input)
        THEN Returns(SearchPrefix \o encodeURIComponent(input))
        ELSE Throws("URIError")

\* A bug: the site table is consulted before the domain-like test.
resolveNavigationURLTableFirst(input) ==
    LET inputLower == trim(toLowerCase(input))
        url == ParseURL(input)
    IN  IF url.ok /\ url.protocol \in {<<"h", "t", "t", "p", ":">>, <<"h", "t", "t", "p", "s", ":">>}
        THEN Returns(url.href)
        ELSE IF siteMatches(inputLower) # {}
        THEN Returns(POPULAR_SITES[firstSiteMatch(inputLower)][2])
        ELSE IF startsWith(inputLower, <<"w", "w", "w", ".">>) \/ matchesDomainPattern(inputLower)
        THEN Returns(<<"h", "t", "t", "p", "s", ":", "/", "/">> \o input)
        ELSE IF matchesSuffixPattern(inputLower)
        THEN Returns(<<"h", "t", "t", "p", "s", ":", "/", "/">> \o input)
        ELSE IF uriEncodable(input)
        THEN Returns(SearchPrefix \o encodeURIComponent(input))
        ELSE Throws("URIError")

\* A bug: every input that parses as a URL is handed back, whatever its
\* scheme.
resolveNavigationURLAnyScheme(input) ==
    LET inputLower == trim(toLowerCase(input))
        url == ParseURL(input)
    IN  IF url.ok
        THEN Returns(IF url.href = Undefined THEN trim(input) ELSE url.href)
        ELSE IF startsWith(inputLower, <<"w", "w", "w", ".">>) \/ matchesDomainPattern(inputLower)
        THEN Returns(<<"h", "t", "t", "p", "s", ":", "/", "/">> \o input)
        ELSE IF siteMatches(inputLower) # {}
        THEN Returns(POPULAR_SITES[firstSiteMatch(inputLower)][2])
        ELSE IF matchesSuffixPattern(inputLower)
        THEN Returns(<<"h", "t", "t", "p", "s", ":", "/", "/">> \o input)
        ELSE IF uriEncodable(input)
        THEN Returns(SearchPrefix \o encodeURIComponent(input))
        ELSE Throws("URIError")

resolveNavigationURL(input) ==
    LET inputLower == trim(toLowerCase(input))
        url == ParseURL(input)
    IN  IF url.ok /\ url.protocol \in {<<"h", "t", "t", "p", ":">>, <<"h", "t", "t", "p", "s", ":">>}
        THEN Returns(url.href)
        ELSE IF startsWith(inputLower, <<"w", "w", "w", ".">>) \/ matchesDomainPattern(inputLower)
        THEN Returns(<<"h", "t", "t", "p", "s", ":", "/", "/">> \o input)
        ELSE IF siteMatches(inputLower) # {}
        THEN Returns(POPULAR_SITES[firstSiteMatch(inputLower)][2])
        ELSE IF matchesSuffixPattern(inputLower)
        THEN Returns(<<"h", "t", "t", "p", "s", ":", "/", "/">> \o input)
        ELSE IF uriEncodable(input)
        THEN Returns(SearchPrefix \o encodeURIComponent(input))
        ELSE Throws("URIError")

(***************************************************************************)
(* PersistentMemory: saving an article or a Q&A to chrome.storage.local    *)
(***************************************************************************)

MaxRequests == 2

StopWords ==
    { <<"t", "h", "e">>, <<"a">>, <<"a", "n">>, <<"a", "n", "d">>, <<"o", "r">>, <<"b", "u", "t">>, <<"i", "n">>, <<"o", "n">>,
      <<"a", "t">>, <<"t", "o">>, <<"f", "o", "r">>, <<"o", "f">>, <<"w", "i", "t", "h">>, <<"b", "y">>, <<"f", "r", "o", "m">>,
      <<"a", "s">>, <<"i", "s">>, <<"w", "a", "s">>, <<"a", "r", "e">>, <<"w", "e", "r", "e">>, <<"b", "e", "e", "n">>, <<"b", "e">>,
      <<"h", "a", "v", "e">>, <<"h", "a", "s">>, <<"h", "a", "d">>, <<"d", "o">>, <<"d", "o", "e", "s">>, <<"d", "i", "d">>, <<"w", "i", "l", "l">>,
      <<"w", "o", "u", "l", "d">>, <<"c", "o", "u", "l", "d">>, <<"s", "h", "o", "u", "l", "d">>, <<"m", "a", "y">>, <<"m", "i", "g", "h", "t">>, <<"c", "a", "n">>,
      <<"t", "h", "i", "s">>, <<"t", "h", "a", "t">>, <<"t", "h", "e", "s", "e">>, <<"t", "h", "o", "s", "e">>, <<"i">>, <<"y", "o", "u">>, <<"h", "e">>,
      <<"s", "h", "e">>, <<"i", "t">>, <<"w", "e">>, <<"t", "h", "e", "y">>, <<"w", "h", "a", "t">>, <<"w", "h", "i", "c", "h">>, <<"w", "h", "o">>,
      <<"w", "h", "e", "n">>, <<"w", "h", "e", "r", "e">>, <<"w", "h", "y">>, <<"h", "o", "w">> }

\* !value for a string-valued field: missing or empty
isMissing(s) == s = Undefined \/ s = <<>>

RECURSIVE uniqueWords(_, _, _)
\* [...new Set(words)]: the first occurrence of each word, in order
uniqueWords(words, i, acc) ==
    IF i > Len(words) THEN acc
    ELSE uniqueWords(words, i + 1,
                     IF words[i] \in Range(acc) THEN acc ELSE Append(acc, words[i]))

extractKeywords(text) ==
    IF isMissing(text) THEN <<>>
    ELSE LET spaced == [i \in DOMAIN text |->
                           LET c == toLowerChar(text[i])
                           IN  IF c \in AlnumLower \cup WhiteSpace THEN c ELSE " "]
             words  == splitWhitespace(spaced)
             kept   == SelectSeq(words, LAMBDA w : Len(w) > 2 /\ w \notin StopWords)
         IN  uniqueWords(kept, 1, <<>>)

DigitChars == <<"0", "1", "2", "3", "4", "5", "6", "7", "8", "9">>

RECURSIVE decimal(_)
\* String(n) for a timestamp
decimal(n) ==
    IF n < 10 THEN <<DigitChars[n + 1]>>
    ELSE Append(decimal(n \div 10), DigitChars[(n % 10) + 1])

\* generateId, with Date.now() = now
generateId(seed, now) ==
    LET replaced == [i \in DOMAIN seed |->
                        IF seed[i] \in (WordChars \ {"_"}) THEN seed[i] ELSE "_"]
    IN  Take(replaced, Min2(Len(replaced), 50)) \o <<"_">> \o decimal(now)

\* The entry saveArticle builds; a timestamp of 0 stands for none given.
articleEntry(data, now) ==
    [type |-> "article",
     id |-> generateId(data.url, now),
     url |-> data.url,
     title |-> data.title,
     summary |-> data.summary,
     contentPreview |-> IF isMissing(data.content) THEN <<>>
                        ELSE Take(data.content, Min2(Len(data.content), 500)),
     timestamp |-> IF data.timestamp = 0 THEN now ELSE data.timestamp,
     keywords |-> extractKeywords(data.title \o <<" ">> \o data.summary)]

\* The entry saveQA builds.
qaEntry(data, now) ==
    [type |-> "qa",
     id |-> generateId(data.question \o decimal(now), now),
     question |-> data.question,
     answer |-> data.answer,
     url |-> IF isMissing(data.url) THEN <<"u", "n", "k", "n", "o", "w", "n">> ELSE data.url,
     title |-> IF isMissing(data.title) THEN <<"U", "n", "k", "n", "o", "w", "n", " ", "p", "a", "g", "e">> ELSE data.title,
     context |-> IF isMissing(data.context) THEN <<>>
                 ELSE Take(data.context, Min2(Len(data.context), 300)),
     timestamp |-> IF data.timestamp = 0 THEN now ELSE data.timestamp,
     keywords |-> extractKeywords(data.question \o <<" ">> \o data.answer)]

NoEntry == [type |-> "none"]

Pending == [pending |-> TRUE]

EmptyStorage == [memories |-> <<>>, index |-> <<>>]

\* saveArticle / saveQA up to the first await: the fields are checked and
\* the entry is built; getMemories is awaited next.
startSave(fn, data, now) ==
    LET missing == IF fn = "saveArticle"
                   THEN isMissing(data.url) \/ isMissing(data.title)
                            \/ isMissing(data.summary)
                   ELSE isMissing(data.question) \/ isMissing(data.answer)
    IN  IF missing
        THEN [fn |-> fn, data |-> data, pc |-> "done", entry |-> NoEntry,
              memories |-> <<>>, index |-> <<>>,
              ret |-> [success |-> FALSE,
                       error |-> IF fn = "saveArticle" THEN "Missing fields"
                                 ELSE "Missing Q/A"]]
        ELSE [fn |-> fn, data |-> data, pc |-> "getMemories",
              entry |-> IF fn = "saveArticle" THEN articleEntry(data, now)
                        ELSE qaEntry(data, now),
              memories |-> <<>>, index |-> <<>>, ret |-> Pending]

\* updateIndex's loop: the entry's id is pushed under each of its keywords.
indexWith(index, entry) ==
    [k \in DOMAIN index \cup Range(entry.keywords) |->
        IF k \in Range(entry.keywords)
        THEN Append(IF k \in DOMAIN index THEN index[k] ELSE <<>>, entry.id)
        ELSE index[k]]

(***************************************************************************)
(* SessionMemory: the current page, the page history and the conversation  *)
(***************************************************************************)

maxHistorySize == 10

maxConversationSize == 5

Null == [null |-> TRUE]

\* this.context as the constructor leaves it
NoContext ==
    [currentPage |-> Null, pageHistory |-> <<>>, lastIntent |-> Null,
     lastAction |-> Null, conversationContext |-> <<>>, activeTask |-> Null]

MissingUrl == "<undefined>"

\* currentPage?.url
urlOf(page) == IF page = Null THEN MissingUrl ELSE page.url

\* updatePageContext with push in place of unshift
updatePageContextAppend(ctx, pageMap) ==
    IF pageMap = Null THEN ctx
    ELSE LET newPage == [url |-> pageMap.url, title |-> pageMap.title,
                         pageType |-> pageMap.pageType]
         IN  IF urlOf(ctx.currentPage) # newPage.url
             THEN LET pushed == IF ctx.currentPage # Null
                                THEN Append(ctx.pageHistory, ctx.currentPage)
                                ELSE ctx.pageHistory
                      kept == IF ctx.currentPage # Null /\ Len(pushed) > maxHistorySize
                              THEN Take(pushed, Len(pushed) - 1)
                              ELSE pushed
                  IN  [ctx EXCEPT !.pageHistory = kept, !.currentPage = newPage]
             ELSE ctx

\* updatePageContext; the metadata and the timestamp of a page are data
\* that no test reads and are left out of the page objects.
updatePageContext(ctx, pageMap) ==
    IF pageMap = Null THEN ctx
    ELSE LET newPage == [url |-> pageMap.url, title |-> pageMap.title,
                         pageType |-> pageMap.pageType]
         IN  IF urlOf(ctx.currentPage) # newPage.url
             THEN LET pushed == IF ctx.currentPage # Null
                                THEN <<ctx.currentPage>> \o ctx.pageHistory
                                ELSE ctx.pageHistory
                      kept == IF ctx.currentPage # Null /\ Len(pushed) > maxHistorySize
                              THEN Take(pushed, Len(pushed) - 1)
                              ELSE pushed
                  IN  [ctx EXCEPT !.pageHistory = kept, !.currentPage = newPage]
             ELSE ctx

\* addConversationTurn; the timestamp of a turn is left out as well.
addConversationTurn(ctx, utterance, intent, response) ==
    LET pushed == Append(ctx.conversationContext,
                         [utterance |-> utterance, intent |-> intent,
                          response |-> response])
        kept == IF Len(pushed) > maxConversationSize THEN Tail(pushed) ELSE pushed
    IN  [ctx EXCEPT !.conversationContext = kept, !.lastIntent = intent]

(***************************************************************************)
(* State                                                                   *)
(***************************************************************************)

VARIABLES
    tabs,     \* the open tabs, in the order chrome.tabs.query({}) lists them
    call,     \* the invocation in hand: its arguments and, once run, its result
    effects,  \* the chrome API calls the invocation has issued, in order
    log,      \* the last completed invocations, as an observer of
              \* SpecRepeat records them; empty in the other specifications
    storage,  \* chrome.storage.local: the values under storageKey and indexKey
    requests, \* the save requests in flight, each with its position and locals
    context   \* SessionMemory's this.context

(***************************************************************************)
(* Actions of a plan, tabs and chrome API calls                            *)
(***************************************************************************)

\* action.value: missing, a string, or an object with a `query` property
\* (a string, or Undefined when the property is missing).
NoValue == [type |-> "undefined"]

StringValue(s) == [type |-> "string", str |-> s]

ObjectValue(q) == [type |-> "object", query |-> q]

\* !action.value: undefined and "" are falsy, every object is truthy.
isFalsy(value) ==
    \/ value.type = "undefined"
    \/ value.type = "string" /\ value.str = <<>>

ActivateTab(tab) == [api |-> "tabs.update", tabId |-> tab.id, active |-> TRUE]

\* A bug: the tab's id is passed where the window's id belongs.
FocusWindowByTabId(tab) == [api |-> "windows.update", windowId |-> tab.id, focused |-> TRUE]

FocusWindow(tab) == [api |-> "windows.update", windowId |-> tab.windowId, focused |-> TRUE]

NavigateTab(tabId, url) == [api |-> "tabs.update", tabId |-> tabId, url |-> url]

(***************************************************************************)
(* executeTabSwitch (background.js 628-686)                                *)
(***************************************************************************)

\* A bug: only the title is scored.
scoreTabByTitle(searchQuery, tab) ==
    [tab |-> tab, score |-> fuzzyMatchScore(searchQuery, tab.title)]

\* A bug: the tab the last completed tab switch made active scores 10
\* more, up to 100 (the recency boost IMPROVEMENTS.md speaks of).
scoreTabRecencyBoost(searchQuery, tab) ==
    LET titleScore == fuzzyMatchScore(searchQuery, tab.title)
        urlScore == fuzzyMatchScore(searchQuery, tab.url)
        maxScore == RMax(titleScore, urlScore)
        last == log[Len(log)].effects
        recent ==
            /\ log # <<>>
            /\ \E i \in DOMAIN last :
                   "active" \in DOMAIN last[i] /\ last[i].tabId = tab.id
    IN  [tab |-> tab,
         score |-> IF ~recent THEN maxScore
                   ELSE IF RLess(Num(90), maxScore) THEN Num(100)
                   ELSE RAdd(maxScore, Num(10))]

\* Lines 650-655: one scored entry per tab, in the order of the tab list.
scoreTab(searchQuery, tab) ==
    LET titleScore == fuzzyMatchScore(searchQuery, tab.title)
        urlScore == fuzzyMatchScore(searchQuery, tab.url)
    IN  [tab |-> tab, score |-> RMax(titleScore, urlScore)]

\* A bug: an entry goes before the entries of the same score (a sort that is
\* not stable).
insertBeforeEqual(sorted, e) ==
    LET k == Cardinality({i \in DOMAIN sorted : RLess(e.score, sorted[i].score)})
    IN  Take(sorted, k) \o <<e>> \o Drop(sorted, k)

\* Array.prototype.sort is stable: an entry goes after every entry already
\* placed whose score is not lower (comparator b.score - a.score).
insertByScore(sorted, e) ==
    LET k == Cardinality({i \in DOMAIN sorted : ~RLess(sorted[i].score, e.score)})
    IN  Take(sorted, k) \o <<e>> \o Drop(sorted, k)

RECURSIVE sortByScoreDesc(_)
sortByScoreDesc(list) ==
    IF list = <<>> THEN <<>>
    ELSE insertByScore(sortByScoreDesc(Take(list, Len(list) - 1)), list[Len(list)])

\* The rethrow of the catch block, line 684.
TabSwitchFailed(cause) == Throws(<<"TAB_SWITCH failed", cause>>)

\* Line 665, and a bug: the threshold of 25 that IMPROVEMENTS.md speaks of.
belowThreshold25(score) == RLess(score, Num(25))

belowThreshold(score) == RLess(score, Num(30))

\* The outcome of executeTabSwitch and the chrome API calls it issued.
\* updateOk / focusOk: whether chrome.tabs.update / chrome.windows.update
\* resolve (the browser may reject either).
executeTabSwitch(action, allTabs, updateOk, focusOk) ==
    LET value == action.value
        searchQuery == IF value.type = "string" THEN value.str ELSE value.query
        scoredTabs ==
            sortByScoreDesc([i \in DOMAIN allTabs |-> scoreTab(searchQuery, allTabs[i])])
        bestMatch == scoredTabs[1]
        targetTab == bestMatch.tab
    IN  IF isFalsy(value)
        THEN [outcome |-> TabSwitchFailed("TAB_SWITCH requires a value"),
              effects |-> <<>>]
        ELSE IF value.type = "object" /\ value.query \in {Undefined, <<>>}
        THEN [outcome |-> TabSwitchFailed("Invalid TAB_SWITCH value"),
              effects |-> <<>>]
        ELSE IF scoredTabs = <<>>
        THEN \* scoredTabs[0] is undefined: reading bestMatch.score throws
             [outcome |-> TabSwitchFailed("TypeError"), effects |-> <<>>]
        ELSE IF belowThreshold(bestMatch.score)
        THEN [outcome |-> TabSwitchFailed("No good tab match"), effects |-> <<>>]
        ELSE IF ~updateOk
        THEN [outcome |-> TabSwitchFailed("chrome.tabs.update rejected"),
              effects |-> <<ActivateTab(targetTab)>>]
        ELSE IF ~focusOk
        THEN [outcome |-> TabSwitchFailed("chrome.windows.update rejected"),
              effects |-> <<ActivateTab(targetTab), FocusWindow(targetTab)>>]
        ELSE [outcome |-> Returns([success |-> TRUE, executed |-> TRUE,
                                   type |-> "TAB_SWITCH",
                                   tab |-> [id |-> targetTab.id,
                                            title |-> targetTab.title,
                                            url |-> targetTab.url],
                                   matchScore |-> bestMatch.score]),
              effects |-> <<ActivateTab(targetTab), FocusWindow(targetTab)>>]

(***************************************************************************)
(* executeNavigate (background.js 761-787)                                 *)
(***************************************************************************)

NavigateFailed(cause) == Throws(<<"NAVIGATE failed", cause>>)

executeNavigate(tabId, action, updateOk) ==
    LET value == action.value
        resolved == resolveNavigationURL(value.str)
        targetURL == resolved.value
    IN  IF isFalsy(value)
        THEN [outcome |-> NavigateFailed("NAVIGATE requires a URL value"),
              effects |-> <<>>]
        ELSE IF value.type # "string"
        THEN \* input.toLowerCase is not a function
             [outcome |-> NavigateFailed("TypeError"), effects |-> <<>>]
        ELSE IF resolved.kind = "throw"
        THEN [outcome |-> NavigateFailed(resolved.error), effects |-> <<>>]
        ELSE IF ~updateOk
        THEN [outcome |-> NavigateFailed("chrome.tabs.update rejected"),
              effects |-> <<NavigateTab(tabId, targetURL)>>]
        ELSE [outcome |-> Returns([success |-> TRUE, executed |-> TRUE,
                                   type |-> "NAVIGATE", url |-> targetURL,
                                   original |-> value.str]),
              effects |-> <<NavigateTab(tabId, targetURL)>>]

(***************************************************************************)
(* executeActionOnTab (background.js 478-516), for the two action types     *)
(* the background script resolves itself                                   *)
(***************************************************************************)

\* A bug: no catch block, the executor's exception goes on to the caller.
actionResultUncaught(outcome) ==
    IF outcome.kind = "return" THEN outcome.value ELSE outcome

\* The try block returns what the executor returns; the catch block turns a
\* throw into {success: false, error: error.message}.
actionResult(outcome) ==
    IF outcome.kind = "return" THEN outcome.value
    ELSE [success |-> FALSE, error |-> outcome.error]

(***************************************************************************)
(* Inputs                                                                  *)
(***************************************************************************)

MaxLen == 2

MaxTabs == 2

Alphabet == {"a", "b", "A", " "}

\* Every string over Alphabet of at most MaxLen code units.
ShortStrings == UNION {[1..n -> Alphabet] : n \in 0..MaxLen}

\* Tabs the browser may have open: {id, title, url, windowId}.
TabPool ==
    << [id |-> 1, title |-> <<"G", "i", "t", "H", "u", "b", " ", "-", " ", "P", "u", "l", "l", " ", "R", "e", "q", "u", "e", "s", "t", "s">>,
        url |-> <<"h", "t", "t", "p", "s", ":", "/", "/", "g", "i", "t", "h", "u", "b", ".", "c", "o", "m", "/", "p", "u", "l", "l", "s">>, windowId |-> 1],
       [id |-> 2, title |-> <<"Y", "o", "u", "T", "u", "b", "e">>,
        url |-> <<"h", "t", "t", "p", "s", ":", "/", "/", "w", "w", "w", ".", "y", "o", "u", "t", "u", "b", "e", ".", "c", "o", "m", "/">>, windowId |-> 1],
       [id |-> 3, title |-> <<"G", "i", "t", "H", "u", "b">>,
        url |-> <<"h", "t", "t", "p", "s", ":", "/", "/", "g", "i", "t", "h", "u", "b", ".", "c", "o", "m", "/">>, windowId |-> 2],
       [id |-> 4, title |-> <<>>, url |-> Undefined, windowId |-> 2],
       [id |-> 5, title |-> <<"a", " ", "b">>,
        url |-> <<"h", "t", "t", "p", "s", ":", "/", "/", "a", "b", ".", "i", "o", "/">>, windowId |-> 3] >>

SpokenQueries ==
    { <<"g", "i", "t", "h", "u", "b">>, <<"g", "i", "t", " ", "h", "u", "b">>, <<"g", "e", "t", "u", "p">>, <<"G", "I", "T", "H", "U", "B">>, <<" ", "g", "i", "t", "h", "u", "b">>,
      <<"g", "i", "t", "h", "a", "b">>, <<"y", "o", "u", "t", "u", "b", "e">>, <<"y", "o", "u", " ", "t", "u", "b", "e">>, <<"p", "u", "l", "l", " ", "r", "e", "q", "u", "e", "s", "t", "s">>,
      <<"g", "i", "t", "h", "u", "b", " ", "i", "s", "s", "u", "e", "s">>, <<"z", "q">>, <<"z", "u", "b">>, <<"z", "h", "u", "b">>, <<"p", "u", "l", "l", "s">>, <<" ", "a", " ", "b", " ">> }

TabSwitchValues ==
    {NoValue}
    \cup {StringValue(q) : q \in SpokenQueries \cup ShortStrings}
    \cup {ObjectValue(q) : q \in {Undefined, <<>>, <<"g", "i", "t", "h", "u", "b">>, <<"z", "q">>}}

NavigationInputs ==
    { <<"h", "t", "t", "p", "s", ":", "/", "/", "e", "x", "a", "m", "p", "l", "e", ".", "c", "o", "m", "/", "x">>, <<"h", "t", "t", "p", "s", ":", "/", "/", "e", "x", "a", "m", "p", "l", "e", ".", "c", "o", "m">>,
      <<"H", "T", "T", "P", "S", ":", "/", "/", "E", "x", "a", "m", "p", "l", "e", ".", "C", "O", "M", "/", "x">>, <<" ", "h", "t", "t", "p", "s", ":", "/", "/", "e", "x", "a", "m", "p", "l", "e", ".", "c", "o", "m", "/", "x">>,
      <<"h", "t", "t", "p", ":", "/", "/", "g", "i", "t", "h", "u", "b", ".", "c", "o", "m", "/", "a", " ", "b">>, <<"h", "t", "t", "p", "s", ":", "/", "/", "e", "x", "a", " ", "m", "p", "l", "e", ".", "c", "o", "m">>,
      <<"h", "t", "t", "p", "s", ":">>, <<"j", "a", "v", "a", "s", "c", "r", "i", "p", "t", ":", "a", "l", "e", "r", "t">>, <<"m", "a", "i", "l", "t", "o", ":", "g", "i", "t", "h", "u", "b">>,
      <<"w", "w", "w", ".", "e", "x", "a", "m", "p", "l", "e", ".", "o", "r", "g">>, <<"w", "w", "w", ".", "g", "i", "t", "h", "u", "b", ".", "c", "o", "m">>, <<"g", "i", "t", "h", "u", "b", ".", "c", "o", "m">>,
      <<"G", "i", "t", "H", "u", "b", ".", "c", "o", "m">>, <<" ", "w", "w", "w", ".", "e", "x", "a", "m", "p", "l", "e", ".", "o", "r", "g">>, <<"e", "x", "a", "m", "p", "l", "e", ".", "c", "o", "m", " ", "i", "s", " ", "g", "r", "e", "a", "t">>,
      <<"m", "y", "-", "s", "i", "t", "e", ".", "i", "o">>, <<"a", ".", "b">>,
      <<"g", "i", "t", "h", "u", "b">>, <<"o", "p", "e", "n", " ", "G", "i", "t", "H", "u", "b", " ", "p", "l", "e", "a", "s", "e">>, <<"y", "o", "u", "t", "u", "b", "e", " ", "a", "n", "d", " ", "g", "i", "t", "h", "u", "b">>,
      <<"g", "i", "t", "h", "u", "b", " ", "a", "n", "d", " ", "y", "o", "u", "t", "u", "b", "e">>, <<"n", "e", "t", "f", "l", "i", "x">>, <<"s", "t", "a", "c", "k", "o", "v", "e", "r", "f", "l", "o", "w">>,
      <<"w", "h", "a", "t", " ", "i", "s", " ", "m", "o", "z", "i", "l", "l", "a", ".", "o", "r", "g">>, <<"f", "o", "o", " ", "b", "a", "r", ".", "c", "o", "m">>, <<"f", "o", "o", "-", ".", "c", "o", "m", "e", "t">>,
      <<"p", "u", "r", "p", "l", "e", " ", "e", "l", "e", "p", "h", "a", "n", "t">>, <<"a", "/", "b", "?", "c">>, <<"p", "u", "r", "p", "l", "e", " ", LoneSurrogate>>, <<LoneSurrogate>>,
      <<"g", "m", "a", "i", "l">>, <<"a", "m", "a", "z", "o", "n", " ", "p", "r", "i", "m", "e">>, <<"f", "i", "l", "e", ".", "t", "x", "t">>, <<"r", "e", "d", "d", "i", "t", ".", "c", "o", "m", "/", "r", "/", "a">>, <<"n", "e", "w", "s">>,
      <<"P", "u", "r", "p", "l", "e", " ", "E", "l", "e", "p", "h", "a", "n", "t">>, <<"x">>, <<"f", "i", "l", "e", ":", "/", "/", "/", "e", "t", "c", "/", "h", "o", "s", "t", "s">>, <<"d", "a", "t", "a", ":", "t", "e", "x", "t", "/", "h", "t", "m", "l", ",", "h", "i">>,
      <<" ", "j", "a", "v", "a", "s", "c", "r", "i", "p", "t", ":", "a", "l", "e", "r", "t">> }
    \cup ShortStrings

NavigateValues ==
    {NoValue, ObjectValue(<<"g", "i", "t", "h", "u", "b">>)}
    \cup {StringValue(u) : u \in NavigationInputs}

(***************************************************************************)
(* The background script between commands                                  *)
(***************************************************************************)

vars == <<tabs, call, effects, log, storage, requests, context>>

Idle == [op |-> "idle"]

OpenIds == {tabs[i].id : i \in DOMAIN tabs}

Init ==
    /\ tabs = <<>>
    /\ call = Idle
    /\ effects = <<>>
    /\ log = <<>>
    /\ storage = EmptyStorage
    /\ requests = <<>>
    /\ context = NoContext

\* The user opens a tab.
OpenTab(k) ==
    /\ call = Idle
    /\ Len(tabs) < MaxTabs
    /\ TabPool[k].id \notin OpenIds
    /\ tabs' = Append(tabs, TabPool[k])
    /\ UNCHANGED <<call, effects, log, storage, requests, context>>

\* The user closes a tab.
CloseTab(i) ==
    /\ call = Idle
    /\ i \in DOMAIN tabs
    /\ tabs' = Take(tabs, i - 1) \o Drop(tabs, i)
    /\ UNCHANGED <<call, effects, log, storage, requests, context>>

\* executeActionOnTab(tabId, {type: 'TAB_SWITCH', value}).
TabSwitch(v, updateOk, focusOk) ==
    LET action == [type |-> "TAB_SWITCH", value |-> v]
        run == executeTabSwitch(action, tabs, updateOk, focusOk)
    IN  /\ call = Idle
        /\ call' = [op |-> "executeActionOnTab", action |-> action,
                    allTabs |-> tabs, outcome |-> run.outcome,
                    result |-> actionResult(run.outcome)]
        /\ effects' = run.effects
        /\ UNCHANGED <<tabs, log, storage, requests, context>>

\* executeActionOnTab(tabId, {type: 'NAVIGATE', value}).
Navigate(tabId, v, updateOk) ==
    LET action == [type |-> "NAVIGATE", value |-> v]
        run == executeNavigate(tabId, action, updateOk)
    IN  /\ call = Idle
        /\ tabId \in OpenIds
        /\ call' = [op |-> "executeActionOnTab", action |-> action,
                    tabId |-> tabId, outcome |-> run.outcome,
                    result |-> actionResult(run.outcome)]
        /\ effects' = run.effects
        /\ UNCHANGED <<tabs, log, storage, requests, context>>

\* The caller has the result; the next command may come.
Return ==
    /\ call # Idle
    /\ call' = Idle
    /\ effects' = <<>>
    /\ UNCHANGED <<tabs, log, storage, requests, context>>

Next ==
    \/ \E k \in DOMAIN TabPool : OpenTab(k)
    \/ \E i \in DOMAIN tabs : CloseTab(i)
    \/ \E v \in TabSwitchValues, updateOk \in BOOLEAN, focusOk \in BOOLEAN :
           TabSwitch(v, updateOk, focusOk)
    \/ \E tabId \in OpenIds, v \in NavigateValues, updateOk \in BOOLEAN :
           Navigate(tabId, v, updateOk)
    \/ Return

Spec == Init /\ [][Next]_vars

(***************************************************************************)
(* The scorer and the URL resolver on their own: the arguments are drawn   *)
(* in the initial state and the function is applied to them.               *)
(***************************************************************************)

ScoreQueries == SpokenQueries \cup ShortStrings

ScoreTexts ==
    ScoreQueries
    \cup {TabPool[k].title : k \in DOMAIN TabPool}
    \cup {TabPool[k].url : k \in DOMAIN TabPool}
    \cup {<<"g", "i", "t", "h", "u", "b", " ">>, <<"G", "i", "t", " ", "H", "u", "b">>, <<"G", "i", "t", "H", "u", "b", ".", "c", "o", "m">>}
    \cup {Undefined}

Args(fn, args) == [op |-> "args", fn |-> fn, args |-> args]

InitFuzzy ==
    /\ tabs = <<>>
    /\ effects = <<>>
    /\ log = <<>>
    /\ storage = EmptyStorage
    /\ requests = <<>>
    /\ context = NoContext
    /\ \E query \in ScoreQueries, text \in ScoreTexts :
           call = Args("fuzzyMatchScore", <<query, text>>)

CallFuzzyMatchScore ==
    /\ call.op = "args"
    /\ call.fn = "fuzzyMatchScore"
    /\ call' = [op |-> "fuzzyMatchScore", query |-> call.args[1],
                text |-> call.args[2],
                ret |-> fuzzyMatchScore(call.args[1], call.args[2])]
    /\ UNCHANGED <<tabs, effects, log, storage, requests, context>>

NextFuzzy == CallFuzzyMatchScore

SpecFuzzy == InitFuzzy /\ [][NextFuzzy]_vars

\* The keywords of the site table, spoken on their own.
SiteKeywords == {POPULAR_SITES[k][1] : k \in DOMAIN POPULAR_SITES}

InitResolve ==
    /\ tabs = <<>>
    /\ effects = <<>>
    /\ log = <<>>
    /\ storage = EmptyStorage
    /\ requests = <<>>
    /\ context = NoContext
    /\ \E input \in NavigationInputs \cup SiteKeywords :
           call = Args("resolveNavigationURL", <<input>>)

CallResolveNavigationURL ==
    /\ call.op = "args"
    /\ call.fn = "resolveNavigationURL"
    /\ call' = [op |-> "resolveNavigationURL", input |-> call.args[1],
                ret |-> resolveNavigationURL(call.args[1])]
    /\ UNCHANGED <<tabs, effects, log, storage, requests, context>>

NextResolve == CallResolveNavigationURL

SpecResolve == InitResolve /\ [][NextResolve]_vars

\* Arguments of phoneticSimilarity: spoken and written forms, with the
\* capitals, spaces and punctuation that speech recognition and page titles
\* bring along.
PhoneticInputs ==
    { <<"g", "e", "t", "u", "p">>, <<"g", "i", "t", "h", "u", "b">>, <<"g", "i", "t", " ", "h", "u", "b">>, <<"y", "o", "u", "t", "o", "o">>, <<"y", "o", "u", "t", "u", "b", "e">>, <<"s", "l", "a", "k">>,
      <<"s", "l", "a", "c", "k">>, <<"k", "r", "o", "m", "e">>, <<"c", "h", "r", "o", "m", "e">>, <<"G", "e", "t", " ", "U", "p", "!">>, <<"G", "i", "t", "H", "u", "b", ".", "c", "o", "m">>,
      <<"G", "i", "t", " ", "H", "u", "b">>, <<"Y", "o", "u", " ", "T", "o", "o">>, <<"o", "p", "e", "n", " ", "s", "l", "a", "c", "k">>, <<"K", "r", "o", "m", "e", " ", "b", "r", "o", "w", "s", "e", "r">>,
      <<"g", "i", "t", "h", "a", "b">>, <<"y", "o", "u", "t", "u", "b", "e", " ", "m", "u", "s", "i", "c">>, <<"!", "?">>, <<"k", "i", "t", "t", "e", "n">>, <<"s", "i", "t", "t", "i", "n", "g">> }
    \cup ShortStrings

InitPhonetic ==
    /\ tabs = <<>>
    /\ effects = <<>>
    /\ log = <<>>
    /\ storage = EmptyStorage
    /\ requests = <<>>
    /\ context = NoContext
    /\ \E str1 \in PhoneticInputs, str2 \in PhoneticInputs :
           call = Args("phoneticSimilarity", <<str1, str2>>)

CallPhoneticSimilarity ==
    /\ call.op = "args"
    /\ call.fn = "phoneticSimilarity"
    /\ call' = [op |-> "phoneticSimilarity", str1 |-> call.args[1],
                str2 |-> call.args[2],
                ret |-> phoneticSimilarity(call.args[1], call.args[2])]
    /\ UNCHANGED <<tabs, effects, log, storage, requests, context>>

NextPhonetic == CallPhoneticSimilarity

SpecPhonetic == InitPhonetic /\ [][NextPhonetic]_vars

MaxEditLen == 4

\* Every string over two code units of at most MaxEditLen code units.
EditStrings == UNION {[1..n -> {"a", "b"}] : n \in 0..MaxEditLen}

\* Arguments of levenshteinDistance: every short string, and cleaned words
\* as phoneticSimilarity passes them.
LevInputs ==
    ShortStrings \cup EditStrings
    \cup { <<"k", "i", "t", "t", "e", "n">>, <<"s", "i", "t", "t", "i", "n", "g">>, <<"g", "i", "t", "h", "u", "b">>, <<"g", "e", "t", "u", "p">>, <<"g", "i", "t", "h", "a", "b">>,
           <<"g", "i", "t", "h", "u", "b", "p", "u", "l", "l", "r", "e", "q", "u", "e", "s", "t", "s">> }

InitLev ==
    /\ tabs = <<>>
    /\ effects = <<>>
    /\ log = <<>>
    /\ storage = EmptyStorage
    /\ requests = <<>>
    /\ context = NoContext
    /\ \E str1 \in LevInputs, str2 \in LevInputs :
           call = Args("levenshteinDistance", <<str1, str2>>)

CallLevenshteinDistance ==
    /\ call.op = "args"
    /\ call.fn = "levenshteinDistance"
    /\ call' = [op |-> "levenshteinDistance", str1 |-> call.args[1],
                str2 |-> call.args[2],
                ret |-> levenshteinDistance(call.args[1], call.args[2])]
    /\ UNCHANGED <<tabs, effects, log, storage, requests, context>>

NextLev == CallLevenshteinDistance

SpecLev == InitLev /\ [][NextLev]_vars

(***************************************************************************)
(* Commands in a row over one tab list, with the completed invocations     *)
(* kept for comparison                                                     *)
(***************************************************************************)

MaxLog == 2

\* The last MaxLog completed invocations.
Remember(entries, entry) ==
    IF Len(entries) < MaxLog THEN Append(entries, entry)
    ELSE Append(Tail(entries), entry)

\* The caller has the result, and the observer notes the invocation with
\* the chrome calls it issued.
ReturnLogged ==
    /\ call # Idle
    /\ call' = Idle
    /\ effects' = <<>>
    /\ log' = Remember(log, [call |-> call, effects |-> effects])
    /\ UNCHANGED <<tabs, storage, requests, context>>

\* Tab lists with a tie ("hub" scores 85 on both GitHub tabs) in either
\* order, and one without.
RepeatTabLists ==
    { <<TabPool[1], TabPool[3]>>, <<TabPool[3], TabPool[1]>>,
      <<TabPool[1], TabPool[2]>> }

RepeatValues == {StringValue(<<"h", "u", "b">>), StringValue(<<"g", "i", "t", "h", "u", "b">>), StringValue(<<"z", "q">>)}

InitRepeat ==
    /\ tabs \in RepeatTabLists
    /\ call = Idle
    /\ effects = <<>>
    /\ log = <<>>
    /\ storage = EmptyStorage
    /\ requests = <<>>
    /\ context = NoContext

NextRepeat ==
    \/ \E v \in RepeatValues, updateOk \in BOOLEAN : TabSwitch(v, updateOk, TRUE)
    \/ \E tabId \in OpenIds : Navigate(tabId, StringValue(<<"g", "i", "t", "h", "u", "b">>), TRUE)
    \/ ReturnLogged

SpecRepeat == InitRepeat /\ [][NextRepeat]_vars

(***************************************************************************)
(* executePlan (background.js 933-971) over executeActionOnTab (478-516)   *)
(***************************************************************************)

\* What chrome.tabs.sendMessage yields for an action the content script
\* executes: the script's response, no response at all (undefined), or a
\* rejection (no receiver in the tab).
NoResponse == [undefined |-> TRUE]

Rejected == [rejected |-> TRUE]

ContentResponses ==
    { [success |-> TRUE, executed |-> TRUE],
      [success |-> FALSE, error |-> <<"Element not found">>],
      NoResponse, Rejected }

\* The try/catch of executeActionOnTab (lines 479, 511-515) around a run.
caughtRun(run) == [result |-> actionResult(run.outcome), effects |-> run.effects]

\* executeActionOnTab: the result it resolves to and the chrome calls it
\* issues.  TAB_SWITCH and NAVIGATE run in the background script; any other
\* type is sent to the content script and its response is the result
\* (lines 502-509).  The catch block turns every throw into a result.
executeActionOnTab(tabId, action, allTabs, updateOk, focusOk, response) ==
    caughtRun(IF action.type = "TAB_SWITCH"
              THEN executeTabSwitch(action, allTabs, updateOk, focusOk)
              ELSE IF action.type = "NAVIGATE"
              THEN executeNavigate(tabId, action, updateOk)
              ELSE IF response = Rejected
              THEN [outcome |-> Throws(<<"Could not establish connection">>),
                    effects |-> <<>>]
              ELSE [outcome |-> Returns(response), effects |-> <<>>])

\* One pass of the loop body of lines 939-955 for `action`: the entries it
\* pushes on results.  The result is pushed first (line 942); reading
\* result.success of an undefined result (line 945) throws, and the catch
\* block pushes an entry of its own (line 953).
entriesPushed(action, result) ==
    IF result = NoResponse
    THEN <<result, [success |-> FALSE, error |-> "TypeError", type |-> action.type]>>
    ELSE <<result>>

\* r.success in results.filter(r => r.success) (line 961).
countsAsExecuted(r) == "success" \in DOMAIN r /\ r.success = TRUE

\* Lines 958-969: the value executePlan resolves to once the loop is over.
\* results.filter reads r.success of every entry and throws on an undefined
\* one; the outer catch then returns the error.
planReturn(plan, results) ==
    IF \E i \in DOMAIN results : results[i] = NoResponse
    THEN [success |-> FALSE, error |-> "TypeError"]
    ELSE [success |-> TRUE,
          results |-> results,
          executed |-> Cardinality({i \in DOMAIN results : countsAsExecuted(results[i])}),
          total |-> Len(plan.actions),
          speak |-> plan.speak]

MaxPlanLen == 2

PlanActions ==
    { [type |-> "TAB_SWITCH", value |-> StringValue(<<"g", "i", "t", "h", "u", "b">>)],
      [type |-> "TAB_SWITCH", value |-> StringValue(<<"z", "q">>)],
      [type |-> "NAVIGATE", value |-> StringValue(<<"g", "i", "t", "h", "u", "b">>)],
      [type |-> "CLICK", value |-> StringValue(<<"a">>)] }

Plans ==
    {[actions |-> a, speak |-> "ok"] :
        a \in UNION {[1..n -> PlanActions] : n \in 0..MaxPlanLen}}

InitPlan ==
    /\ tabs = <<TabPool[2], TabPool[3]>>
    /\ call = Idle
    /\ effects = <<>>
    /\ log = <<>>
    /\ storage = EmptyStorage
    /\ requests = <<>>
    /\ context = NoContext

\* The EXECUTE_PLAN message arrives (lines 272-277).
StartPlan(plan) ==
    /\ call = Idle
    /\ call' = [op |-> "executePlan", tabId |-> tabs[1].id, plan |-> plan,
                next |-> 1, attempted |-> <<>>, results |-> <<>>, done |-> FALSE]
    /\ UNCHANGED <<tabs, effects, log, storage, requests, context>>

\* Lines 941-942 and 953: what one iteration leaves in results, and the
\* chrome calls it has issued.
PlanStep(action, run) ==
    /\ call' = [call EXCEPT !.next = @ + 1,
                            !.attempted = Append(@, call.next),
                            !.results = @ \o entriesPushed(action, run.result)]
    /\ effects' = effects \o run.effects

\* One iteration of the for-of loop: the next action of the plan.
RunPlanAction(updateOk, focusOk, response) ==
    /\ call.op = "executePlan"
    /\ ~call.done
    /\ call.next <= Len(call.plan.actions)
    /\ PlanStep(call.plan.actions[call.next],
                executeActionOnTab(call.tabId, call.plan.actions[call.next], tabs,
                                   updateOk, focusOk, response))
    /\ UNCHANGED <<tabs, log, storage, requests, context>>

\* The loop is over: executePlan resolves.
FinishPlan ==
    /\ call.op = "executePlan"
    /\ ~call.done
    /\ call.next > Len(call.plan.actions)
    /\ call' = [op |-> "executePlan", tabId |-> call.tabId, plan |-> call.plan,
                next |-> call.next, attempted |-> call.attempted,
                results |-> call.results, done |-> TRUE,
                ret |-> planReturn(call.plan, call.results)]
    /\ UNCHANGED <<tabs, effects, log, storage, requests, context>>

NextPlan ==
    \/ \E plan \in Plans : StartPlan(plan)
    \/ \E updateOk \in BOOLEAN, focusOk \in BOOLEAN, response \in ContentResponses :
           RunPlanAction(updateOk, focusOk, response)
    \/ FinishPlan

SpecPlan == InitPlan /\ [][NextPlan]_vars

(***************************************************************************)
(* Save requests handled by the service worker.  Each request runs up to   *)
(* its next await in one step; between two steps of one request the steps  *)
(* of the others may run.  The reads of chrome.storage.local are taken to  *)
(* succeed.                                                                *)
(***************************************************************************)

ArticleData ==
    { [url |-> <<"a", ".", "i", "o", "/", "1">>, title |-> <<"R", "u", "s", "t", " ", "b", "o", "o", "k">>, summary |-> <<"t", "h", "e", " ", "R", "u", "s", "t", " ", "g", "u", "i", "d", "e">>,
       content |-> Undefined, timestamp |-> 0],
      [url |-> <<"b", ".", "i", "o">>, title |-> <<"G", "o", " ", "t", "o", "u", "r">>, summary |-> <<"a", " ", "t", "o", "u", "r">>,
       content |-> <<"W", "e", "l", "c", "o", "m", "e">>, timestamp |-> 0],
      [url |-> <<"c", ".", "i", "o">>, title |-> <<"E", "m", "p", "t", "y">>, summary |-> <<>>,
       content |-> Undefined, timestamp |-> 0] }

QAData ==
    { [question |-> <<"w", "h", "y", " ", "R", "u", "s", "t">>, answer |-> <<"m", "e", "m", "o", "r", "y", " ", "s", "a", "f", "e", "t", "y">>, url |-> Undefined,
       title |-> Undefined, context |-> Undefined, timestamp |-> 0],
      [question |-> <<"h", "o", "w">>, answer |-> Undefined, url |-> <<"b", ".", "i", "o">>,
       title |-> <<"G", "o", " ", "t", "o", "u", "r">>, context |-> Undefined, timestamp |-> 0] }

\* Values of Date.now()
Times == {7, 12}

InitSave ==
    /\ tabs = <<>>
    /\ call = Idle
    /\ effects = <<>>
    /\ log = <<>>
    /\ storage = EmptyStorage
    /\ requests = <<>>
    /\ context = NoContext

\* A SAVE_ARTICLE message arrives, or saveQA is called: the request runs to
\* its first await.  The requests are for different pages and questions.
Submit(fn, data, now) ==
    /\ Len(requests) < MaxRequests
    /\ \A r \in DOMAIN requests : requests[r].data # data
    /\ requests' = Append(requests, startSave(fn, data, now))
    /\ UNCHANGED <<tabs, call, effects, log, storage, context>>

\* chrome.storage.local.get resolves in getMemories: the request has the
\* stored list, pushes its entry and asks for the list to be stored.
GetMemories(r) ==
    /\ requests[r].pc = "getMemories"
    /\ requests' = [requests EXCEPT
                       ![r].memories = Append(storage.memories, requests[r].entry),
                       ![r].pc = "set"]
    /\ UNCHANGED <<tabs, call, effects, log, storage, context>>

\* chrome.storage.local.set({[storageKey]: memories}) settles; a rejection
\* is caught and returned.  Otherwise updateIndex starts.
SetMemories(r, ok) ==
    /\ requests[r].pc = "set"
    /\ IF ok
       THEN /\ storage' = [storage EXCEPT !.memories = requests[r].memories]
            /\ requests' = [requests EXCEPT ![r].pc = "indexGet"]
       ELSE /\ storage' = storage
            /\ requests' = [requests EXCEPT
                               ![r].pc = "done",
                               ![r].ret = [success |-> FALSE, error |-> "set failed"]]
    /\ UNCHANGED <<tabs, call, effects, log, context>>

\* updateIndex has the stored index and adds the entry's id to it.
IndexGet(r) ==
    /\ requests[r].pc = "indexGet"
    /\ requests' = [requests EXCEPT
                       ![r].index = indexWith(storage.index, requests[r].entry),
                       ![r].pc = "indexSet"]
    /\ UNCHANGED <<tabs, call, effects, log, storage, context>>

\* The index is stored (a rejection is logged and dropped) and the save
\* returns its entry's id.
IndexSet(r, ok) ==
    /\ requests[r].pc = "indexSet"
    /\ storage' = IF ok THEN [storage EXCEPT !.index = requests[r].index] ELSE storage
    /\ requests' = [requests EXCEPT
                       ![r].pc = "done",
                       ![r].ret = [success |-> TRUE, id |-> requests[r].entry.id]]
    /\ UNCHANGED <<tabs, call, effects, log, context>>

NextSave ==
    \/ \E data \in ArticleData, now \in Times : Submit("saveArticle", data, now)
    \/ \E data \in QAData, now \in Times : Submit("saveQA", data, now)
    \/ \E r \in DOMAIN requests : GetMemories(r)
    \/ \E r \in DOMAIN requests, ok \in BOOLEAN : SetMemories(r, ok)
    \/ \E r \in DOMAIN requests : IndexGet(r)
    \/ \E r \in DOMAIN requests, ok \in BOOLEAN : IndexSet(r, ok)

SpecSave == InitSave /\ [][NextSave]_vars

(***************************************************************************)
(* Calls on the session memory.  An observer keeps, in log, the pages that *)
(* were passed (a page passed again while it is the current one counts     *)
(* once) and the turns that were added, each in call order.                *)
(***************************************************************************)

MaxVisits == 12

MaxTurns == 6

PageMaps ==
    { Null,
      [url |-> "https://a.io", title |-> "A", pageType |-> "article"],
      [url |-> "https://a.io", title |-> "A, updated", pageType |-> "article"],
      [url |-> "https://b.io", title |-> "B", pageType |-> "search"] }

Turns ==
    { [utterance |-> "open b", intent |-> [type |-> "navigate"], response |-> "Opening"],
      [utterance |-> "read it", intent |-> [type |-> "summarize"], response |-> "Here"] }

\* The observer's list of pages after pageMap is passed.
visitsWith(visits, pageMap) ==
    IF pageMap = Null THEN visits
    ELSE IF (IF visits = <<>> THEN MissingUrl ELSE visits[Len(visits)].url) = pageMap.url
         THEN visits
         ELSE Append(visits, pageMap)

InitSession ==
    /\ tabs = <<>>
    /\ call = Idle
    /\ effects = <<>>
    /\ log = [visits |-> <<>>, turns |-> <<>>]
    /\ storage = EmptyStorage
    /\ requests = <<>>
    /\ context = NoContext

UpdatePageContext(pageMap) ==
    /\ Len(visitsWith(log.visits, pageMap)) <= MaxVisits
    /\ context' = updatePageContext(context, pageMap)
    /\ call' = [op |-> "updatePageContext", pageMap |-> pageMap, before |-> context]
    /\ log' = [log EXCEPT !.visits = visitsWith(log.visits, pageMap)]
    /\ UNCHANGED <<tabs, effects, storage, requests>>

AddConversationTurn(turn) ==
    /\ Len(log.turns) < MaxTurns
    /\ context' = addConversationTurn(context, turn.utterance, turn.intent, turn.response)
    /\ call' = [op |-> "addConversationTurn", turn |-> turn, before |-> context]
    /\ log' = [log EXCEPT !.turns = Append(log.turns, turn)]
    /\ UNCHANGED <<tabs, effects, storage, requests>>

NextSession ==
    \/ \E pageMap \in PageMaps : UpdatePageContext(pageMap)
    \/ \E turn \in Turns : AddConversationTurn(turn)

SpecSession == InitSession /\ [][NextSession]_vars

(***************************************************************************)
(* Properties                                                              *)
(***************************************************************************)

IsTabSwitchCall ==
    call.op = "executeActionOnTab" /\ call.action.type = "TAB_SWITCH"

\* The action carries a query for the tabs to be scored against.
HasQuery(value) ==
    /\ ~isFalsy(value)
    /\ value.type = "object" => value.query \notin {Undefined, <<>>}

QueryOf(value) == IF value.type = "string" THEN value.str ELSE value.query

\* The candidate score of a tab: the better of its title and URL scores.
CandidateScore(query, tab) ==
    LET titleScore == fuzzyMatchScore(query, tab.title)
        urlScore == fuzzyMatchScore(query, tab.url)
    IN  IF RLeq(urlScore, titleScore) THEN titleScore ELSE urlScore

\* The tabs the invocation made active.
ActivatedIds ==
    {effects[i].tabId : i \in {j \in DOMAIN effects : "active" \in DOMAIN effects[j]}}

C3_NoTabsNoMatchError ==
    IsTabSwitchCall /\ HasQuery(call.action.value) /\ call.allTabs = <<>> =>
        /\ call.outcome = TabSwitchFailed("No good tab match")
        /\ effects = <<>>

IsResolveCall == call.op = "resolveNavigationURL"

\* The string is an absolute URL of scheme http or https.
IsHttpURL(s) ==
    LET url == ParseURL(s)
    IN  url.ok /\ url.protocol \in {<<"h", "t", "t", "p", ":">>, <<"h", "t", "t", "p", "s", ":">>}

\* C4 (as claimed): resolveNavigationURL returns, for every input, and what
\* it returns is an absolute http(s) URL.
C4_TotalUsableURL ==
    IsResolveCall => call.ret.kind = "return" /\ IsHttpURL(call.ret.value)

\* C5 (as claimed): an input that is an absolute http(s) URL is returned as
\* it is.
C5_UrlUnchanged ==
    IsResolveCall /\ IsHttpURL(call.input) => call.ret = Returns(call.input)

\* C5 (amended): an input that is an absolute http(s) URL is returned in
\* its serialized form url.href; the result is again an http(s) URL whose
\* serialization is itself, and it is the input when the input is already
\* in serialized form.
C5_UrlSerialized ==
    IsResolveCall /\ IsHttpURL(call.input) =>
        /\ call.ret = Returns(ParseURL(call.input).href)
        /\ IsHttpURL(call.ret.value)
        /\ ParseURL(call.ret.value).href = call.ret.value
        /\ ParseURL(call.input).href = call.input => call.ret.value = call.input

\* An http(s) URL that is not in serialized form has been resolved.
C5_Witness ==
    /\ IsResolveCall
    /\ call.input = <<"H", "T", "T", "P", "S", ":", "/", "/", "E", "x", "a", "m", "p", "l", "e", ".", "C", "O", "M", "/", "x">>
    /\ call.ret = Returns(<<"h", "t", "t", "p", "s", ":", "/", "/", "e", "x", "a", "m", "p", "l", "e", ".", "c", "o", "m", "/", "x">>)

\* Rule 2 as the code tests it, on the trimmed lower-cased input.
RuleTwoApplies(input) ==
    LET inputLower == trim(toLowerCase(input))
    IN  startsWith(inputLower, <<"w", "w", "w", ".">>) \/ matchesDomainPattern(inputLower)

\* C6: an input that is no http(s) URL and not domain-like, and contains a
\* site keyword case-insensitively, resolves to the URL of the first such
\* keyword in table order; "github" resolves to "https://github.com".
C6_FirstKeywordInTableOrder ==
    IsResolveCall /\ ~IsHttpURL(call.input) /\ ~RuleTwoApplies(call.input) =>
        LET lower == toLowerCase(call.input)
            Has(k) == includes(lower, POPULAR_SITES[k][1])
        IN  /\ \A k \in DOMAIN POPULAR_SITES :
                   Has(k) /\ (\A j \in 1..(k - 1) : ~Has(j)) =>
                       call.ret = Returns(POPULAR_SITES[k][2])
            /\ call.input = <<"g", "i", "t", "h", "u", "b">> => call.ret = Returns(<<"h", "t", "t", "p", "s", ":", "/", "/", "g", "i", "t", "h", "u", "b", ".", "c", "o", "m">>)

\* The later keyword of the table comes first in the input.
C6_Witness ==
    /\ IsResolveCall
    /\ call.input = <<"g", "i", "t", "h", "u", "b", " ", "a", "n", "d", " ", "y", "o", "u", "t", "u", "b", "e">>
    /\ call.ret = Returns(<<"h", "t", "t", "p", "s", ":", "/", "/", "w", "w", "w", ".", "y", "o", "u", "t", "u", "b", "e", ".", "c", "o", "m">>)

\* The claim's domain-like pattern: word characters, a dot, two or more
\* word characters, from the start of the input.
DomainLike(s) ==
    LET k == prefixRun(s, WordChars)
    IN  /\ k >= 1
        /\ Len(s) >= k + 3
        /\ s[k + 1] = "."
        /\ s[k + 2] \in WordChars
        /\ s[k + 3] \in WordChars

\* C7: an input that is no http(s) URL and starts with "www." or is
\* domain-like resolves to "https://" followed by the input, also when it
\* contains a site keyword.
C7_DomainLikeGetsHttps ==
    IsResolveCall /\ ~IsHttpURL(call.input)
    /\ (startsWith(call.input, <<"w", "w", "w", ".">>) \/ DomainLike(call.input)) =>
        call.ret = Returns(<<"h", "t", "t", "p", "s", ":", "/", "/">> \o call.input)

\* A domain-like input that contains the site keyword "github".
C7_Witness ==
    /\ IsResolveCall
    /\ call.input = <<"w", "w", "w", ".", "g", "i", "t", "h", "u", "b", ".", "c", "o", "m">>
    /\ call.ret = Returns(<<"h", "t", "t", "p", "s", ":", "/", "/", "w", "w", "w", ".", "g", "i", "t", "h", "u", "b", ".", "c", "o", "m">>)

\* No rule before the fallback applies to the input.
NoEarlierRule(input) ==
    LET inputLower == trim(toLowerCase(input))
    IN  /\ ~IsHttpURL(input)
        /\ ~RuleTwoApplies(input)
        /\ \A k \in DOMAIN POPULAR_SITES : ~includes(inputLower, POPULAR_SITES[k][1])
        /\ ~matchesSuffixPattern(inputLower)

\* C8 (as claimed): when no earlier rule applies the result is the search
\* URL whose query parameter is the URL-encoded input.
C8_SearchFallback ==
    IsResolveCall /\ NoEarlierRule(call.input) =>
        /\ call.ret.kind = "return"
        /\ call.ret.value = SearchPrefix \o encodeURIComponent(call.input)

IsFuzzyCall == call.op = "fuzzyMatchScore"

\* C9: fuzzyMatchScore returns a number from 0 to 100, and 0 for a text
\* that is empty or absent.
C9_ScoreRange ==
    IsFuzzyCall =>
        /\ RLeq(Num(0), call.ret)
        /\ RLeq(call.ret, Num(100))
        /\ call.text \in {<<>>, Undefined} => call.ret = Num(0)

\* A score that is not a whole number, from the edit-distance similarity.
C9_Witness ==
    /\ IsFuzzyCall
    /\ call.query = <<"g", "i", "t", "h", "a", "b">>
    /\ call.text = <<"G", "i", "t", "H", "u", "b">>
    /\ call.ret = Rat(250, 3)

\* C10 (as claimed): a non-empty query scores 100 against itself, and
\* against any text equal to it up to letter case and surrounding white
\* space.
C10_ExactMatchIs100 ==
    IsFuzzyCall /\ call.query # <<>> /\ call.text # Undefined
    /\ trim(toLowerCase(call.query)) = trim(toLowerCase(call.text)) =>
        call.ret = Num(100)


\* The ways a text can match a query, read off the trimmed lower-cased query
\* and the lower-cased text as rules 1 to 4 of fuzzyMatchScore test them.
HasPrefix(query, text) ==
    /\ text \notin {Undefined, <<>>}
    /\ toLowerCase(text) # trim(toLowerCase(query))
    /\ startsWith(toLowerCase(text), trim(toLowerCase(query)))

HasInnerSubstring(query, text) ==
    /\ text \notin {Undefined, <<>>}
    /\ ~startsWith(toLowerCase(text), trim(toLowerCase(query)))
    /\ includes(toLowerCase(text), trim(toLowerCase(query)))

PhoneticOnly(query, text) ==
    /\ text \notin {Undefined, <<>>}
    /\ ~includes(toLowerCase(text), trim(toLowerCase(query)))
    /\ RLess(Num(80), phoneticSimilarity(trim(toLowerCase(query)), toLowerCase(text)))

\* C11 (as claimed): for one query, a text it is a prefix of scores strictly
\* higher than a text that only contains it further in, and such a text
\* scores strictly higher than a text that matches only phonetically.
C11_TiersOrdered ==
    IsFuzzyCall =>
        \A other \in ScoreTexts :
            /\ HasPrefix(call.query, call.text) /\ HasInnerSubstring(call.query, other) =>
                   RLess(fuzzyMatchScore(call.query, other), call.ret)
            /\ HasInnerSubstring(call.query, call.text) /\ PhoneticOnly(call.query, other) =>
                   RLess(fuzzyMatchScore(call.query, other), call.ret)


IsPhoneticCall == call.op = "phoneticSimilarity"

IsAlnumLower(c) == c \in AlnumLower

\* A string lower-cased and without its non-alphanumeric code units.
Normalized(s) == SelectSeq(toLowerCase(s), IsAlnumLower)

\* The confusion pairs the specification lists.
ListedPairs ==
    { <<<<"g", "e", "t", "u", "p">>, <<"g", "i", "t", "h", "u", "b">>>>, <<<<"g", "i", "t", " ", "h", "u", "b">>, <<"g", "i", "t", "h", "u", "b">>>>,
      <<<<"y", "o", "u", "t", "o", "o">>, <<"y", "o", "u", "t", "u", "b", "e">>>>, <<<<"s", "l", "a", "k">>, <<"s", "l", "a", "c", "k">>>>,
      <<<<"k", "r", "o", "m", "e">>, <<"c", "h", "r", "o", "m", "e">>>> }

\* The input holds the form: as written, up to letter case, or once its
\* spaces and punctuation are dropped.
HoldsForm(form, str) ==
    includes(toLowerCase(str), form) \/ includes(Normalized(str), form)

\* One input holds the pair's spoken form and the other its written form.
HoldsPair(pair, str1, str2) ==
    \/ HoldsForm(pair[1], str1) /\ HoldsForm(pair[2], str2)
    \/ HoldsForm(pair[2], str1) /\ HoldsForm(pair[1], str2)

\* C12 (as claimed): phoneticSimilarity returns 95 whenever its inputs hold
\* the spoken and the written form of a listed confusion pair, in either
\* order.
C12_ListedPairsScore95 ==
    IsPhoneticCall /\ (\E pair \in ListedPairs : HoldsPair(pair, call.str1, call.str2)) =>
        call.ret = Num(95)

\* No entry of the patterns table applies to the normalized inputs.
NoPatternApplies(a, b) ==
    \A k \in DOMAIN patterns :
        /\ ~(includes(a, patterns[k].spoken) /\ includes(b, patterns[k].written))
        /\ ~(includes(a, patterns[k].written) /\ includes(b, patterns[k].spoken))

\* C13: phoneticSimilarity returns a number from 0 to 100; when no pattern
\* applies it is (maxLen - levenshtein(a', b')) / maxLen * 100 over the
\* normalized inputs a', b', and 0 when both of them are empty.
C13_PhoneticRangeAndFormula ==
    IsPhoneticCall =>
        LET a == Normalized(call.str1)
            b == Normalized(call.str2)
            maxLen == Max2(Len(a), Len(b))
        IN  /\ RLeq(Num(0), call.ret)
            /\ RLeq(call.ret, Num(100))
            /\ maxLen = 0 => call.ret = Num(0)
            /\ maxLen > 0 /\ NoPatternApplies(a, b) =>
                   call.ret.n * maxLen
                       = (maxLen - levenshteinDistance(a, b)) * 100 * call.ret.d

\* Three edits among seven code units: the similarity is 400/7.
C13_Witness ==
    /\ IsPhoneticCall
    /\ call.str1 = <<"k", "i", "t", "t", "e", "n">>
    /\ call.str2 = <<"s", "i", "t", "t", "i", "n", "g">>
    /\ call.ret = Rat(400, 7)


\* C14 (as claimed): with the tabs "GitHub - Pull Requests" and "YouTube"
\* open, the query "git hub" selects the GitHub tab, with a score of at
\* least 85.
C14_GitHubTabAtLeast85 ==
    /\ IsTabSwitchCall
    /\ call.action.value = StringValue(<<"g", "i", "t", " ", "h", "u", "b">>)
    /\ [i \in DOMAIN call.allTabs |-> call.allTabs[i].title]
           = <<<<"G", "i", "t", "H", "u", "b", " ", "-", " ", "P", "u", "l", "l", " ", "R", "e", "q", "u", "e", "s", "t", "s">>, <<"Y", "o", "u", "T", "u", "b", "e">>>>
    => /\ ActivatedIds = {call.allTabs[1].id}
       /\ RLeq(Num(85), CandidateScore(<<"g", "i", "t", " ", "h", "u", "b">>, call.allTabs[1]))
       /\ call.outcome.kind = "return" => RLeq(Num(85), call.result.matchScore)


IsLevCall == call.op = "levenshteinDistance"

\* t is s with one code unit taken out.
OneRemoved(s, t) ==
    /\ Len(s) = Len(t) + 1
    /\ \E i \in DOMAIN s : Take(s, i - 1) \o Drop(s, i) = t

\* One insertion, deletion or substitution turns s into t.
OneEdit(s, t) ==
    \/ OneRemoved(s, t)
    \/ OneRemoved(t, s)
    \/ Len(s) = Len(t) /\ Cardinality({i \in DOMAIN s : s[i] # t[i]}) = 1

\* The strings of EditStrings one edit away from each of them.  An optimal
\* sequence of edits from a to b needs no string longer than the longer of
\* the two and no code unit that b lacks, so it stays within EditStrings.
Neighbours == [s \in EditStrings |-> {t \in EditStrings : OneEdit(s, t)}]

\* The least number of edits that turn a into b: the first k for which b is
\* within k edits of a (`ball` holds the strings within k edits).
RECURSIVE EditsFrom(_, _, _)
EditsFrom(ball, b, k) ==
    IF b \in ball THEN k
    ELSE EditsFrom(ball \cup UNION {Neighbours[s] : s \in ball}, b, k + 1)

MinEdits(a, b) == EditsFrom({a}, b, 0)

\* C15: levenshteinDistance(a, b) is the least number of single insertions,
\* deletions and substitutions that turn a into b; it is max(len(a), len(b))
\* when either string is empty, and 0 for a string and itself.
C15_MinimumEdits ==
    IsLevCall =>
        /\ call.str1 \in EditStrings /\ call.str2 \in EditStrings =>
               call.ret = MinEdits(call.str1, call.str2)
        /\ call.str1 = <<>> \/ call.str2 = <<>> =>
               call.ret = Max2(Len(call.str1), Len(call.str2))
        /\ call.str1 = call.str2 => call.ret = 0

\* A deletion at the front, a substitution inside and an insertion at the
\* end: three edits.
C15_Witness ==
    /\ IsLevCall
    /\ call.str1 = <<"b", "a", "a", "b">>
    /\ call.str2 = <<"a", "b", "b", "a">>
    /\ call.ret = 3

\* C16: levenshteinDistance(a, b) = levenshteinDistance(b, a).
C16_Symmetric ==
    IsLevCall => call.ret = levenshteinDistance(call.str2, call.str1)

\* Strings of different lengths, three edits apart.
C16_Witness ==
    /\ IsLevCall
    /\ call.str1 = <<"k", "i", "t", "t", "e", "n">>
    /\ call.str2 = <<"s", "i", "t", "t", "i", "n", "g">>
    /\ call.ret = 3


\* The invocations on record and the one in hand, oldest first.
Runs ==
    log \o (IF call.op = "executeActionOnTab"
            THEN <<[call |-> call, effects |-> effects]>> ELSE <<>>)

IsSwitchRun(r) == r.call.action.type = "TAB_SWITCH"

\* The tabs an invocation made active.
SelectedIn(r) ==
    {r.effects[i].tabId : i \in {j \in DOMAIN r.effects : "active" \in DOMAIN r.effects[j]}}

NoMatchIn(r) == r.call.outcome = TabSwitchFailed("No good tab match")

C18_EmptyQueryNoMatch ==
    IsTabSwitchCall /\ call.action.value \in {StringValue(<<>>), ObjectValue(<<>>)} =>
        /\ \A i \in DOMAIN call.allTabs :
               RLess(CandidateScore(<<>>, call.allTabs[i]), Num(30))
        /\ call.outcome = TabSwitchFailed("No good tab match")
        /\ effects = <<>>


IsActionCall == call.op = "executeActionOnTab"

\* C19: executeActionOnTab for a TAB_SWITCH or NAVIGATE action always
\* returns a result; when the executor throws (no tab matches, or any other
\* failure) the result has success = false and carries the error message,
\* and otherwise it is what the executor returned.
C19_FailureIsReturned ==
    IsActionCall =>
        /\ "success" \in DOMAIN call.result
        /\ call.outcome.kind = "throw" =>
               call.result = [success |-> FALSE, error |-> call.outcome.error]
        /\ call.outcome.kind = "return" =>
               call.result = call.outcome.value /\ call.result.success = TRUE

\* No open tab matches the query: the caller gets the error as a result.
C19_Witness ==
    /\ IsTabSwitchCall
    /\ call.action.value = StringValue(<<"z", "q">>)
    /\ Len(call.allTabs) = 1
    /\ call.result = [success |-> FALSE,
                      error |-> <<"TAB_SWITCH failed", "No good tab match">>]


\* C20: one tab switch issues at most one tab activation and at most one
\* window focus and nothing else, the activation first; both are for one
\* open tab, the one the result reports, and for that tab's window; and
\* without a query, without tabs or with every score below 30 it issues
\* nothing.
C20_EffectsOnceAfterSelection ==
    IsTabSwitchCall =>
        LET value == call.action.value
            activations == {i \in DOMAIN effects : effects[i].api = "tabs.update"}
            focuses == {i \in DOMAIN effects : effects[i].api = "windows.update"}
            resolved ==
                /\ HasQuery(value)
                /\ \E i \in DOMAIN call.allTabs :
                       ~RLess(CandidateScore(QueryOf(value), call.allTabs[i]), Num(30))
        IN  /\ Cardinality(activations) <= 1
            /\ Cardinality(focuses) <= 1
            /\ Len(effects) = Cardinality(activations) + Cardinality(focuses)
            /\ focuses # {} => activations = {1} /\ focuses = {2}
            /\ ~resolved => effects = <<>>
            /\ effects # <<>> =>
                   \E i \in DOMAIN call.allTabs :
                       /\ effects[1] = [api |-> "tabs.update",
                                        tabId |-> call.allTabs[i].id, active |-> TRUE]
                       /\ focuses # {} =>
                              effects[2] = [api |-> "windows.update",
                                            windowId |-> call.allTabs[i].windowId,
                                            focused |-> TRUE]
                       /\ call.outcome.kind = "return" =>
                              focuses # {} /\ call.result.tab.id = call.allTabs[i].id

\* A switch to a tab whose window id differs from its own id.
C20_Witness ==
    /\ IsTabSwitchCall
    /\ call.outcome.kind = "return"
    /\ call.result.tab.id = 3
    /\ effects = <<[api |-> "tabs.update", tabId |-> 3, active |-> TRUE],
                   [api |-> "windows.update", windowId |-> 2, focused |-> TRUE]>>


\* C21: the tab a tab switch makes active is the first tab of the list, in
\* the list's order, among those with the highest candidate score.
C21_FirstOfTiedTabs ==
    IsTabSwitchCall /\ ActivatedIds # {} =>
        LET query == QueryOf(call.action.value)
            Best(i) ==
                \A j \in DOMAIN call.allTabs :
                    RLeq(CandidateScore(query, call.allTabs[j]),
                         CandidateScore(query, call.allTabs[i]))
        IN  \E i \in DOMAIN call.allTabs :
                /\ Best(i)
                /\ \A j \in 1..(i - 1) : ~Best(j)
                /\ ActivatedIds = {call.allTabs[i].id}

\* "getup" scores 95 on both GitHub tabs; the one listed first is chosen.
C21_Witness ==
    /\ IsTabSwitchCall
    /\ call.action.value = StringValue(<<"g", "e", "t", "u", "p">>)
    /\ call.allTabs = <<TabPool[3], TabPool[1]>>
    /\ CandidateScore(<<"g", "e", "t", "u", "p">>, TabPool[1]) = CandidateScore(<<"g", "e", "t", "u", "p">>, TabPool[3])
    /\ call.outcome.kind = "return"
    /\ call.result.tab.id = 3


DomainSuffixes == {<<".", "c", "o", "m">>, <<".", "o", "r", "g">>, <<".", "n", "e", "t">>, <<".", "i", "o">>, <<".", "a", "i">>, <<".", "d", "e", "v">>}

\* A domain-like name with one of the suffixes: word characters or hyphens,
\* then the suffix.
DomainWithSuffix(s) ==
    LET k == prefixRun(s, WordChars \cup {"-"})
    IN  k >= 1 /\ \E suffix \in DomainSuffixes : startsWith(Drop(s, k), suffix)

\* Rules 1 to 3 leave the input unresolved.
RulesOneToThreePass(input) ==
    /\ ~IsHttpURL(input)
    /\ ~RuleTwoApplies(input)
    /\ \A k \in DOMAIN POPULAR_SITES :
           ~includes(trim(toLowerCase(input)), POPULAR_SITES[k][1])

\* C22 (as claimed): an input that rules 1 to 3 leave unresolved becomes
\* "https://" + input if it is a domain-like name with one of the suffixes,
\* and the search URL if it is not.
C22_SuffixRuleOnlyForDomains ==
    IsResolveCall /\ RulesOneToThreePass(call.input) /\ uriEncodable(call.input) =>
        IF DomainWithSuffix(trim(toLowerCase(call.input)))
        THEN call.ret = Returns(<<"h", "t", "t", "p", "s", ":", "/", "/">> \o call.input)
        ELSE call.ret = Returns(SearchPrefix \o encodeURIComponent(call.input))


\* None of rules 1 to 4 of fuzzyMatchScore applies: the text is there, is
\* not the query, does not contain it, and is not phonetically above 80.
NoRuleUpToPhonetic(query, text) ==
    /\ text \notin {Undefined, <<>>}
    /\ ~includes(toLowerCase(text), trim(toLowerCase(query)))
    /\ RLeq(phoneticSimilarity(trim(toLowerCase(query)), toLowerCase(text)), Num(80))

\* The white-space-delimited words of the query that are substrings of a
\* white-space-delimited word of the text, by position.
MatchedWords(query, text) ==
    LET words == splitWhitespace(trim(toLowerCase(query)))
        textWords == splitWhitespace(toLowerCase(text))
    IN  {i \in DOMAIN words : \E t \in DOMAIN textWords : includes(textWords[t], words[i])}

QueryWordCount(query) == Len(splitWhitespace(trim(toLowerCase(query))))

\* C23: when none of rules 1 to 4 applies, the score is 70 if every query
\* word is a substring of some text word, and 50 + 20 * matched / words,
\* strictly between 50 and 70, if some but not all are.
C23_WordRule ==
    IsFuzzyCall /\ NoRuleUpToPhonetic(call.query, call.text) =>
        LET matched == Cardinality(MatchedWords(call.query, call.text))
            count == QueryWordCount(call.query)
        IN  /\ matched = count => call.ret = Num(70)
            /\ 0 < matched /\ matched < count =>
                   /\ call.ret = RAdd(Num(50), Rat(20 * matched, count))
                   /\ RLess(Num(50), call.ret)
                   /\ RLess(call.ret, Num(70))

\* One of two query words matches: 60.
C23_Witness ==
    /\ IsFuzzyCall
    /\ call.query = <<"g", "i", "t", "h", "u", "b", " ", "i", "s", "s", "u", "e", "s">>
    /\ call.text = <<"G", "i", "t", "H", "u", "b", " ", "-", " ", "P", "u", "l", "l", " ", "R", "e", "q", "u", "e", "s", "t", "s">>
    /\ NoRuleUpToPhonetic(call.query, call.text)
    /\ call.ret = Num(60)

\* The code units of q found in t, each looked for after the place where
\* the one before was found.
RECURSIVE MatchedChars(_, _)
MatchedChars(q, t) ==
    IF q = <<>> THEN 0
    ELSE IF Head(q) \in Range(t)
         THEN LET first == CHOOSE i \in DOMAIN t :
                               t[i] = Head(q) /\ \A h \in 1..(i - 1) : t[h] # Head(q)
              IN  1 + MatchedChars(Tail(q), Drop(t, first))
         ELSE MatchedChars(Tail(q), t)

\* C24: when none of rules 1 to 4 applies and no query word matches, the
\* score is max(40 * matchedChars / len(query), phoneticScore / 2), and it
\* is at most 40.
C24_CharacterFallback ==
    IsFuzzyCall /\ NoRuleUpToPhonetic(call.query, call.text)
    /\ MatchedWords(call.query, call.text) = {} =>
        LET q == trim(toLowerCase(call.query))
            t == toLowerCase(call.text)
            chars == Rat(40 * MatchedChars(q, t), Len(q))
            half == RMul(phoneticSimilarity(q, t), Rat(1, 2))
        IN  /\ call.ret = (IF RLess(chars, half) THEN half ELSE chars)
            /\ RLeq(call.ret, Num(40))

\* "b" is found at the end of the text, and "a" is not found after it.
C24_Witness ==
    /\ IsFuzzyCall
    /\ call.query = <<"b", "a">>
    /\ call.text = <<"a", "b">>
    /\ call.ret = Num(20)


\* C25 (as claimed): every keyword of the site table, given as the input,
\* resolves to the URL of its own entry.
C25_KeywordResolvesToOwnEntry ==
    IsResolveCall =>
        \A k \in DOMAIN POPULAR_SITES :
            call.input = POPULAR_SITES[k][1] => call.ret = Returns(POPULAR_SITES[k][2])


IsNavigateCall ==
    call.op = "executeActionOnTab" /\ call.action.type = "NAVIGATE"

\* The scheme of a URL string: what stands before its first colon, in
\* lower case; empty when there is no colon.
SchemeOf(s) ==
    IF ":" \in Range(s) THEN toLowerCase(Take(s, firstIn(s, {":"}))) ELSE <<>>

\* C26: the URL that executeNavigate passes to chrome.tabs.update, which is
\* the URL resolveNavigationURL returned, has scheme http or https; when it
\* returns, the result reports that URL.
C26_OnlyHttpSchemes ==
    IsNavigateCall =>
        /\ \A i \in DOMAIN effects :
               /\ effects[i].api = "tabs.update"
               /\ SchemeOf(effects[i].url) \in {<<"h", "t", "t", "p">>, <<"h", "t", "t", "p", "s">>}
               /\ call.action.value.type = "string"
               /\ resolveNavigationURL(call.action.value.str) = Returns(effects[i].url)
        /\ call.outcome.kind = "return" =>
               /\ Len(effects) = 1
               /\ call.result.url = effects[1].url

\* A javascript: URL is not passed on: it becomes a search.
C26_Witness ==
    /\ IsNavigateCall
    /\ call.action.value = StringValue(<<"j", "a", "v", "a", "s", "c", "r", "i", "p", "t", ":", "a", "l", "e", "r", "t">>)
    /\ call.outcome.kind = "return"
    /\ effects = <<NavigateTab(call.tabId, <<"h", "t", "t", "p", "s", ":", "/", "/", "w", "w", "w", ".", "g", "o", "o", "g", "l", "e", ".", "c", "o", "m", "/", "s", "e", "a", "r", "c", "h", "?", "q", "=", "j", "a", "v", "a", "s", "c", "r", "i", "p", "t", "%", "3", "A", "a", "l", "e", "r", "t">>)>>


\* C27 (as claimed): a tab switch whose query is empty after trimming fails
\* and makes no tab active, whatever tabs are open.
C27_BlankQueryActivatesNothing ==
    /\ IsTabSwitchCall
    /\ call.action.value.type = "string"
    /\ trim(call.action.value.str) = <<>>
    => /\ call.outcome.kind = "throw"
       /\ ActivatedIds = {}


IsPlanCall == call.op = "executePlan"

\* C28 (as claimed): executePlan attempts the actions of the plan one by
\* one in plan order, whatever the earlier ones returned; it holds one
\* result per attempted action, and it returns the list of all of them with
\* executed the number of successful entries, at most total.
C28_OneResultPerAction ==
    IsPlanCall =>
        /\ call.attempted = [i \in 1..(call.next - 1) |-> i]
        /\ Len(call.results) = Len(call.attempted)
        /\ call.done =>
               /\ Len(call.attempted) = Len(call.plan.actions)
               /\ "results" \in DOMAIN call.ret
               /\ Len(call.ret.results) = Len(call.plan.actions)
               /\ call.ret.total = Len(call.plan.actions)
               /\ call.ret.executed
                      = Cardinality({i \in DOMAIN call.ret.results :
                                        /\ "success" \in DOMAIN call.ret.results[i]
                                        /\ call.ret.results[i].success = TRUE})
               /\ call.ret.executed <= call.ret.total


AllCompleted ==
    /\ requests # <<>>
    /\ \A r \in DOMAIN requests : requests[r].pc = "done"

IsStored(entry) == \E i \in DOMAIN storage.memories : storage.memories[i] = entry

\* C29 (as claimed): once all the save requests have completed, the entry
\* of every request that returned success is in the stored memory list,
\* however their storage reads and writes interleaved.
C29_NoSavedEntryLost ==
    AllCompleted =>
        \A r \in DOMAIN requests :
            requests[r].ret.success = TRUE => IsStored(requests[r].entry)


IsSessionState == "visits" \in DOMAIN log

\* The last k entries of s, in order.
LastOf(s, k) == SubSeq(s, Len(s) - Min2(k, Len(s)) + 1, Len(s))

\* The entries of s before its last one, newest first, k of them at most.
EarlierNewestFirst(s, k) ==
    [i \in 1..Min2(k, Len(s) - 1) |-> s[Len(s) - i]]

PageOf(pageMap) ==
    [url |-> pageMap.url, title |-> pageMap.title, pageType |-> pageMap.pageType]

\* C30: after any calls of updatePageContext and addConversationTurn,
\* pageHistory has at most 10 entries, which are the pages that were
\* current before the current one, most recent first; a call with the URL
\* of the current page changes nothing; conversationContext has at most 5
\* entries, the most recent turns in call order; and lastIntent is the
\* intent of the latest turn.
C30_SessionMemoryBounded ==
    IsSessionState =>
        /\ Len(context.pageHistory) <= 10
        /\ log.visits # <<>> =>
               /\ context.currentPage = PageOf(log.visits[Len(log.visits)])
               /\ context.pageHistory
                      = [i \in 1..Min2(10, Len(log.visits) - 1) |->
                            PageOf(EarlierNewestFirst(log.visits, 10)[i])]
        /\ context.pageHistory # <<>> =>
               context.pageHistory[1].url # context.currentPage.url
        /\ (/\ call.op = "updatePageContext"
            /\ call.pageMap # Null
            /\ call.before.currentPage # Null
            /\ call.pageMap.url = call.before.currentPage.url)
           => /\ context.pageHistory = call.before.pageHistory
              /\ context.currentPage = call.before.currentPage
        /\ Len(context.conversationContext) <= 5
        /\ context.conversationContext = LastOf(log.turns, 5)
        /\ log.turns # <<>> =>
               context.lastIntent = log.turns[Len(log.turns)].intent

\* The eleventh earlier page has been dropped from a full history and a
\* sixth turn has pushed the first one out.
C30_Witness ==
    /\ IsSessionState
    /\ Len(log.visits) = 12
    /\ Len(context.pageHistory) = 10
    /\ Len(log.turns) = 6
    /\ Len(context.conversationContext) = 5
    /\ context.conversationContext[1] = log.turns[2]
    /\ call.op = "updatePageContext"
    /\ call.pageMap # Null
    /\ call.pageMap.url = call.before.currentPage.url
    /\ call.pageMap.title # call.before.currentPage.title

=============================================================================
